---- MODULE Spec2Model ----
(***************************************************************************)
(* A model of github.com/purpleclay/x/cli: the example-line tokenizer of   *)
(* help.go, the enumerated flag value, and the environment-binding and     *)
(* flag-requirement passes that run around command execution.              *)
(*                                                                         *)
(* Text is modelled by TLA+ strings, read rune by rune with SubSeq and     *)
(* built with \o, so that formatting and parsing are computed rather than  *)
(* assumed.  Indices are 0-based as in the Go source.                      *)
(***************************************************************************)
EXTENDS Integers, Sequences, FiniteSets, TLC

VARIABLES
    \* tokenizeExample (help.go): the line, the scan index i, the tokens so far
    line, tpos, tokens,
    \* EnumValue: its fields, and the result of the last call made on it
    value, names, values, allowed, help, baseType, ret,
    \* the flags of the command: Value.String(), Changed, the changed field
    \* of a slice value, and the two annotations
    flagValue, flagChanged, valueChanged, envAnnotation, requiresAnnotation,
    \* the process environment and the command line
    environ, args,
    \* Execute: whether it has returned, its error, whether Run was invoked
    \* and the flag values Run saw
    pc, execErr, ran, seen,
    \* styleExampleLine (help.go): the root command name and the subcommand
    \* names it is given, the index of the next token of its loop, its
    \* expectCommand flag and the styled pieces written to result so far
    rootCmd, subcommands, spos, expectCommand, result,
    \* help rendering of the flags: Hidden and the group annotation of each
    \* flag, the groups in the order of their first FlagGroup call, whether
    \* a FlagGroup call has moved a flag out of another group, DefValue of
    \* each flag, the width option, the sections written by
    \* renderGroupedFlags and whether it has run
    flagHidden, groupAnnotation, groupsDefined, reassigned, flagDefValue,
    helpWidth, sections, printed,
    \* formatUsage: the command it is given and the line it returns
    usageCmd, usageLine,
    \* unfill and wrapText: the text and the width given, the text
    \* returned and the calls made so far
    text, textWidth, textOut, textOp,
    \* helpFunc and usageFunc: the output stream of the command (the Write
    \* calls that fail, the calls made and the data it took) and the
    \* command's descriptions, the callback run and what it returned
    stream, render,
    \* the persistent pre-run hooks: PersistentPreRunE and PersistentPreRun
    \* of each command, the calls made while a command ran, in order, and
    \* what the hook that cobra ran returned
    preRunE, preRun, hookLog, hookRet,
    \* the last call made on the annotations of a flag: the function, the
    \* flag it was given and what it returned
    called

tokVars == <<line, tpos, tokens>>

enumVars == <<value, names, values, allowed, help, baseType, ret>>

flagVars == <<flagValue, flagChanged, valueChanged>>

cliVars == <<flagValue, flagChanged, valueChanged, envAnnotation,
             requiresAnnotation, environ, args, pc, execErr, ran, seen>>

styleVars == <<rootCmd, subcommands, spos, expectCommand, result>>

groupVars == <<flagHidden, groupAnnotation, groupsDefined, reassigned,
               flagDefValue, helpWidth, sections, printed>>

usageVars == <<usageCmd, usageLine>>

textVars == <<text, textWidth, textOut, textOp>>

renderVars == <<stream, render>>

hookVars == <<preRunE, preRun, hookLog, hookRet>>

moreVars == <<renderVars, hookVars, called>>

helpVars == <<styleVars, groupVars, usageVars, textVars, moreVars>>

vars == <<line, tpos, tokens, value, names, values, allowed, help, baseType,
          ret, flagValue, flagChanged, valueChanged, envAnnotation,
          requiresAnnotation, environ, args, pc, execErr, ran, seen,
          rootCmd, subcommands, spos, expectCommand, result, flagHidden,
          groupAnnotation, groupsDefined, reassigned, flagDefValue,
          helpWidth, sections, printed, usageCmd, usageLine, text,
          textWidth, textOut, textOp, stream, render, preRunE, preRun,
          hookLog, hookRet, called>>

----------------------------------------------------------------------------
(* Bounds *)

\* longest line enumerated exhaustively over Alphabet
MaxLen == 4
\* most phrases concatenated into one composed line
MaxPhrases == 3
\* most allowed values given to Enum
MaxAllowed == 3
\* most help strings given to WithHelp
MaxHelp == 2
\* most requirements declared on the flags of the command, in all
MaxRequires == 2
\* most names given to one MarkFlagRequires call
MaxMark == 1
\* most phrases concatenated into one line given to styleExampleLine
MaxStylePhrases == 2
\* longest text given to unfill and wrapText, enumerated over TextAlphabet
MaxTextLen == 5
\* most flags, and most subcommands, of the command given to formatUsage
MaxUsageFlags == 2
MaxSubCommands == 2
\* most flag names given to one FlagGroup call
MaxGroupFlags == 2

----------------------------------------------------------------------------
(* Go string primitives *)

\* runes[k]
Rune(s, k) == SubSeq(s, k + 1, k + 1)

\* runes[a:b]
Slice(s, a, b) == SubSeq(s, a + 1, b)

\* strings.HasPrefix
HasPrefix(s, p) == Len(s) >= Len(p) /\ SubSeq(s, 1, Len(p)) = p

\* strings.Index for a one-rune needle: first index of c in s, or -1
Index(s, c) ==
    LET hits == {k \in 0..(Len(s) - 1) : Rune(s, k) = c}
    IN  IF hits = {} THEN -1 ELSE CHOOSE k \in hits : \A h \in hits : k <= h

\* strings.Contains
Contains(s, sub) ==
    \E k \in 0..(Len(s) - Len(sub)) : Slice(s, k, k + Len(sub)) = sub

\* a nil error
NoError == "<nil>"

Digits == "0123456789"

RECURSIVE FormatNat(_)
\* the decimal digits of a natural number
FormatNat(n) ==
    IF n < 10 THEN Rune(Digits, n)
    ELSE FormatNat(n \div 10) \o Rune(Digits, n % 10)

\* fmt.Sprintf("%v", v) for an integer
FormatInt(n) == IF n < 0 THEN "-" \o FormatNat(0 - n) ELSE FormatNat(n)

RECURSIVE SeqsUpTo(_, _)
\* the sequences over S of length at most n
SeqsUpTo(S, n) ==
    IF n = 0 THEN {<<>>}
    ELSE LET shorter == SeqsUpTo(S, n - 1)
         IN  shorter \cup {Append(q, x) : q \in shorter, x \in S}

RECURSIVE Join(_, _)
\* strings.Join
Join(elems, sep) ==
    IF Len(elems) = 0 THEN ""
    ELSE IF Len(elems) = 1 THEN elems[1]
    ELSE elems[1] \o sep \o Join(Tail(elems), sep)

----------------------------------------------------------------------------
(* The command that Execute runs: its flags, in the lexicographical order  *)
(* in which FlagSet.VisitAll visits them                                   *)

FlagNames == <<"check", "key", "port", "tags">>

FlagSet == {FlagNames[k] : k \in 1..Len(FlagNames)}

\* Value.Type() of each flag
FlagKind ==
    [check |-> "bool", key |-> "string", port |-> "int", tags |-> "stringSlice"]

\* DefValue of each flag
FlagDefault ==
    [check |-> "false", key |-> "default", port |-> "8080", tags |-> "[]"]

\* a nil *pflag.Flag
NilFlag == "<nil flag>"

\* a variable absent from the environment, a flag absent from the arguments
Unset == "<unset>"

NotGiven == "<not given>"

EnvVars == {"TEST_KEY", "TEST_PORT"}

\* a nil *cobra.Command, and the usage line before formatUsage has run
NoCommand == "<nil command>"

NotRendered == "<not rendered>"

\* the commands of the tree whose hooks are followed: a root command and a
\* subcommand of it
Commands == {"root", "sub"}

\* a nil func field of a command
NilFunc == [kind |-> "nil"]

\* no persistent pre-run hook has returned
NotRun == "<not run>"

----------------------------------------------------------------------------
(* Components at rest, for the specifications that do not use them *)

\* no line is being tokenized
TokIdle ==
    /\ line = ""
    /\ tpos = 0
    /\ tokens = <<>>

\* the command as constructed: nothing bound, marked, given or executed
CliIdle ==
    /\ flagValue = FlagDefault
    /\ flagChanged = [f \in FlagSet |-> FALSE]
    /\ valueChanged = [f \in FlagSet |-> FALSE]
    /\ envAnnotation = [f \in FlagSet |-> <<>>]
    /\ requiresAnnotation = [f \in FlagSet |-> <<>>]
    /\ environ = [v \in EnvVars |-> Unset]
    /\ args = [f \in FlagSet |-> NotGiven]
    /\ pc = "setup"
    /\ execErr = NoError
    /\ ran = FALSE
    /\ seen = FlagDefault

\* no example line is being styled
StyleIdle ==
    /\ rootCmd = ""
    /\ subcommands = {}
    /\ spos = 0
    /\ expectCommand = TRUE
    /\ result = <<>>

\* no flag hidden or grouped, the declared defaults, nothing rendered
GroupIdle ==
    /\ flagHidden = [f \in FlagSet |-> FALSE]
    /\ groupAnnotation = [f \in FlagSet |-> <<>>]
    /\ groupsDefined = <<>>
    /\ reassigned = FALSE
    /\ flagDefValue = FlagDefault
    /\ helpWidth = 80
    /\ sections = <<>>
    /\ printed = FALSE

\* no usage line asked for
UsageIdle ==
    /\ usageCmd = NoCommand
    /\ usageLine = NotRendered

\* no text given to unfill or wrapText
TextIdle ==
    /\ text = ""
    /\ textWidth = 0
    /\ textOut = ""
    /\ textOp = <<>>

\* no help or usage callback run, on a stream that takes every write
RenderIdle ==
    /\ stream = [fails |-> {}, calls |-> 0, data |-> <<>>]
    /\ render = [long |-> "", short |-> "", op |-> "", err |-> NoError]

\* no persistent pre-run hook set on a command, and none run
HookIdle ==
    /\ preRunE = [c \in Commands |-> NilFunc]
    /\ preRun = [c \in Commands |-> NilFunc]
    /\ hookLog = <<>>
    /\ hookRet = NotRun

\* no call made on the annotations of a flag
CallIdle == called = [fn |-> "", flag |-> "", ret |-> ""]

MoreIdle == RenderIdle /\ HookIdle /\ CallIdle

HelpIdle == StyleIdle /\ GroupIdle /\ UsageIdle /\ TextIdle /\ MoreIdle

\* no enum is in use
EnumIdle ==
    /\ value = ""
    /\ names = <<>>
    /\ values = <<>>
    /\ allowed = <<>>
    /\ help = <<>>
    /\ baseType = "string"
    /\ ret = [op |-> "Enum", arg |-> "", err |-> NoError]

----------------------------------------------------------------------------
(* The enumerated flag value *)

\* fmt.Sprintf("%v", v) for a value of an enum of base type bt
displayName(bt, v) == IF bt = "int" THEN FormatInt(v) ELSE v

\* the last index of elems at which an element with display name n stands
lastNamed(bt, elems, n) ==
    CHOOSE k \in 1..Len(elems) :
        /\ displayName(bt, elems[k]) = n
        /\ \A j \in (k + 1)..Len(elems) : displayName(bt, elems[j]) # n

\* Enum as it would be if values mapped every display name to the default
EnumMappingToDefault(bt, def, allowedValues) ==
    [value    |-> def,
     names    |-> [v \in {allowedValues[k] : k \in 1..Len(allowedValues)}
                      |-> displayName(bt, v)],
     values   |-> [n \in {displayName(bt, allowedValues[k]) :
                             k \in 1..Len(allowedValues)} |-> def],
     allowed  |-> [k \in 1..Len(allowedValues)
                      |-> displayName(bt, allowedValues[k])],
     baseType |-> bt]

\* Enum(def, allowed...): the fields of the EnumValue it returns
Enum(bt, def, allowedValues) ==
    [value    |-> def,
     names    |-> [v \in {allowedValues[k] : k \in 1..Len(allowedValues)}
                      |-> displayName(bt, v)],
     values   |-> [n \in {displayName(bt, allowedValues[k]) :
                             k \in 1..Len(allowedValues)}
                      |-> allowedValues[lastNamed(bt, allowedValues, n)]],
     allowed  |-> [k \in 1..Len(allowedValues)
                      |-> displayName(bt, allowedValues[k])],
     baseType |-> bt]

\* String()
String == IF value \in DOMAIN names THEN names[value] ELSE ""

\* Get()
Get == value

\* Type()
Type == Join(allowed, "|")

Upper == "ABCDEFGHIJKLMNOPQRSTUVWXYZ"

Lower == "abcdefghijklmnopqrstuvwxyz"

RECURSIVE ToLower(_)
\* strings.ToLower
ToLower(s) ==
    IF s = "" THEN ""
    ELSE LET c == Rune(s, 0)
             u == Index(Upper, c)
         IN  (IF u >= 0 THEN Rune(Lower, u) ELSE c) \o ToLower(Slice(s, 1, Len(s)))

\* Set as it would be if a rejected string reset the value to the first
\* allowed one
SetResultResetting(s) ==
    IF s \in DOMAIN values
    THEN [value |-> values[s], err |-> NoError]
    ELSE [value |-> IF Len(allowed) > 0 THEN values[allowed[1]] ELSE value,
          err |-> "must be one of: " \o Join(allowed, ", ")]

\* Set as it would be if display names were matched without regard to case
SetResultFoldingCase(s) ==
    LET hits == {n \in DOMAIN values : ToLower(n) = ToLower(s)}
    IN  IF hits # {}
        THEN [value |-> values[CHOOSE n \in hits : TRUE], err |-> NoError]
        ELSE [value |-> value, err |-> "must be one of: " \o Join(allowed, ", ")]

\* what Set(s) stores and returns
SetResult(s) ==
    IF s \in DOMAIN values
    THEN [value |-> values[s], err |-> NoError]
    ELSE [value |-> value, err |-> "must be one of: " \o Join(allowed, ", ")]

Set(s) ==
    /\ value' = SetResult(s).value
    /\ ret' = [op |-> "Set", arg |-> s, err |-> SetResult(s).err]
    /\ UNCHANGED <<names, values, allowed, help, baseType>>

\* the last index of h that gives help to the allowed name n
lastHelped(h, n) ==
    CHOOSE k \in 1..Len(h) :
        /\ k <= Len(allowed) /\ h[k] # "" /\ allowed[k] = n
        /\ \A j \in (k + 1)..Len(h) :
              ~(j <= Len(allowed) /\ h[j] # "" /\ allowed[j] = n)

\* the help map as it would be if empty help strings were stored too
helpAfterStoringEmpty(h) ==
    IF Len(h) = 0 THEN help
    ELSE [n \in {allowed[k] : k \in {j \in 1..Len(h) : j <= Len(allowed)}}
             |-> h[CHOOSE k \in 1..Len(h) :
                     /\ k <= Len(allowed) /\ allowed[k] = n
                     /\ \A j \in (k + 1)..Len(h) :
                           ~(j <= Len(allowed) /\ allowed[j] = n)]]

\* the help map WithHelp(h...) leaves
helpAfter(h) ==
    IF Len(h) = 0 THEN help
    ELSE [n \in {allowed[k] : k \in {j \in 1..Len(h) :
                                        j <= Len(allowed) /\ h[j] # ""}}
             |-> h[lastHelped(h, n)]]

WithHelp(h) ==
    /\ help' = helpAfter(h)
    /\ ret' = [op |-> "WithHelp", arg |-> h, err |-> NoError]
    /\ UNCHANGED <<value, names, values, allowed, baseType>>

\* HasHelp()
HasHelp == Cardinality(DOMAIN help) > 0

\* HelpEntries()
HelpEntries ==
    [k \in 1..Len(allowed) |->
        [Name |-> allowed[k],
         Help |-> IF allowed[k] \in DOMAIN help THEN help[allowed[k]] ELSE ""]]

\* the values an enum is built from, the strings given to Set, the help texts
EnumChoices(bt) == IF bt = "int" THEN {-1, 1, 10} ELSE {"json", "JSON", "yaml"}

SetInputs(bt) ==
    IF bt = "int" THEN {"1", "01", "10", "-1", "x"}
    ELSE {"json", "JSON", "yaml", "xml", ""}

HelpTexts == {"", "first", "second"}

EnumInit ==
    /\ \E bt \in {"string", "int"} :
       \E def \in EnumChoices(bt) :
       \E allowedValues \in SeqsUpTo(EnumChoices(bt), MaxAllowed) :
          LET e == Enum(bt, def, allowedValues)
          IN  /\ value = e.value
              /\ names = e.names
              /\ values = e.values
              /\ allowed = e.allowed
              /\ baseType = e.baseType
    /\ help = <<>>
    /\ ret = [op |-> "Enum", arg |-> "", err |-> NoError]
    /\ TokIdle
    /\ CliIdle
    /\ HelpIdle

EnumNext ==
    \/ \E s \in SetInputs(baseType) : Set(s) /\ UNCHANGED <<tokVars, cliVars, helpVars>>
    \/ \E h \in SeqsUpTo(HelpTexts, MaxHelp) :
          WithHelp(h) /\ UNCHANGED <<tokVars, cliVars, helpVars>>

SpecEnum == EnumInit /\ [][EnumNext]_vars

----------------------------------------------------------------------------
(* Properties of the enumerated flag value *)

\* the allowed display names, as a set
allowedNames == {allowed[k] : k \in 1..Len(allowed)}

RECURSIVE occurInOrder(_, _, _)
\* the strings of elems occur in s one after another, at or after index from
occurInOrder(s, from, elems) ==
    IF Len(elems) = 0 THEN TRUE
    ELSE LET n == Head(elems)
             at == {k \in from..(Len(s) - Len(n)) : Slice(s, k, k + Len(n)) = n}
         IN  /\ at # {}
             /\ occurInOrder(s, (CHOOSE k \in at : \A h \in at : k <= h) + Len(n),
                             Tail(elems))

\* C2: a Set with a string that is no allowed display name returns an error
\* that reads "must be one of" and then every allowed display name in
\* declaration order, and Get() and String() answer after it as before it.
C2_RejectedSetKeepsValue ==
    [][(ret'.op = "Set" /\ ret'.arg \notin allowedNames)
          => /\ ret'.err # NoError
             /\ occurInOrder(ret'.err, 0, <<"must be one of">> \o allowed)
             /\ Get' = Get
             /\ String' = String]_vars

\* a rejected Set on an enum whose value an earlier Set had changed
C2_Witness ==
    /\ ret.op = "Set"
    /\ ret.arg \notin allowedNames
    /\ ret.err # NoError
    /\ Len(allowed) >= 2
    /\ String # "" /\ String # allowed[1]

\* C3: Set(s) succeeds exactly when s is, character for character, an allowed
\* display name; then String() is s and Get() is an allowed value displayed
\* as s; a failed Set and WithHelp keep the value, so the value is always
\* that of the last successful Set, or the default.
C3_SetAcceptsExactNames ==
    [][/\ ret'.op = "Set" =>
             /\ ret'.err = NoError <=> ret'.arg \in allowedNames
             /\ ret'.err = NoError =>
                   /\ String' = ret'.arg
                   /\ Get' \in DOMAIN names
                   /\ displayName(baseType, Get') = ret'.arg
             /\ ret'.err # NoError => Get' = Get
       /\ ret'.op # "Set" => Get' = Get]_vars

\* a successful Set that changed the value, on an enum that also has a name
\* differing only in case or spelling of the number
C3_Witness ==
    /\ ret.op = "Set"
    /\ ret.err = NoError
    /\ String = ret.arg
    /\ Len(allowed) >= 2
    /\ ret.arg # allowed[1]

----------------------------------------------------------------------------
(* The example tokenizer, help.go *)

tokenWhitespace == 0
tokenWord == 1
tokenOperator == 2
tokenString == 3
tokenEnvAssign == 4
tokenLineContinuation == 5

exampleToken(v, tt) == [value |-> v, tokenType |-> tt]

\* shellOperators as it would be if the one-character operators came first
shellOperatorsShortestFirst == <<"|", ">", "<", ";", "&", ">>", "<<", "&&", "||">>

shellOperators == <<">>", "<<", "&&", "||", "|", ">", "<", ";", "&">>

\* the first operator of shellOperators that is a prefix of runes[pos:], or ""
matchOperator(runes, pos) ==
    LET remaining == Slice(runes, pos, Len(runes))
        hits == {k \in 1..Len(shellOperators) :
                    HasPrefix(remaining, shellOperators[k])}
    IN  IF hits = {} THEN ""
        ELSE shellOperators[CHOOSE k \in hits : \A h \in hits : k <= h]

\* allEnvOrWhitespace as it would be if it looked at the last token only
lastEnvOrWhitespace(toks) ==
    Len(toks) > 0 =>
        toks[Len(toks)].tokenType \in {tokenWhitespace, tokenEnvAssign}

allEnvOrWhitespace(toks) ==
    \A k \in 1..Len(toks) :
        toks[k].tokenType \in {tokenWhitespace, tokenEnvAssign}

isBlank(r) == r = " " \/ r = "\t"

isQuote(r) == r = "\"" \/ r = "'"

RECURSIVE scanWhitespace(_, _)
\* for i < len(runes) && (runes[i] == ' ' || runes[i] == '\t') { i++ }
scanWhitespace(runes, k) ==
    IF k < Len(runes) /\ isBlank(Rune(runes, k))
    THEN scanWhitespace(runes, k + 1)
    ELSE k

RECURSIVE scanQuotedIgnoringEscapes(_, _, _)
\* scanQuoted as it would be if a backslash did not escape the next rune
scanQuotedIgnoringEscapes(runes, k, quote) ==
    IF k < Len(runes) /\ Rune(runes, k) # quote
    THEN scanQuotedIgnoringEscapes(runes, k + 1, quote)
    ELSE k

RECURSIVE scanQuoted(_, _, _)
\* for i < len(runes) && runes[i] != quote { escape: i += 2, else i++ }
scanQuoted(runes, k, quote) ==
    IF k < Len(runes) /\ Rune(runes, k) # quote
    THEN IF Rune(runes, k) = "\\" /\ k + 1 < Len(runes)
         THEN scanQuoted(runes, k + 2, quote)
         ELSE scanQuoted(runes, k + 1, quote)
    ELSE k

\* the index after a quoted string that opens at start
endOfString(runes, start) ==
    LET k == scanQuoted(runes, start + 1, Rune(runes, start))
    IN  IF k < Len(runes) THEN k + 1 ELSE k

RECURSIVE scanWordThroughBackslash(_, _)
\* scanWord as it would be if a word did not stop before a final backslash
scanWordThroughBackslash(runes, k) ==
    IF k < Len(runes)
    THEN LET r == Rune(runes, k)
         IN  IF isBlank(r) \/ isQuote(r) THEN k
             ELSE IF matchOperator(runes, k) # "" THEN k
             ELSE scanWordThroughBackslash(runes, k + 1)
    ELSE k

RECURSIVE scanWord(_, _)
\* the word loop: stop at blank, quote, final backslash or operator
scanWord(runes, k) ==
    IF k < Len(runes)
    THEN LET r == Rune(runes, k)
         IN  IF isBlank(r) \/ isQuote(r) THEN k
             ELSE IF r = "\\" /\ k = Len(runes) - 1 THEN k
             ELSE IF matchOperator(runes, k) # "" THEN k
             ELSE scanWord(runes, k + 1)
    ELSE k

\* the type given to a word, after the tokens emitted before it
wordType(toks, word) ==
    IF allEnvOrWhitespace(toks)
       /\ Index(word, "=") > 0 /\ ~HasPrefix(word, "-")
    THEN tokenEnvAssign
    ELSE tokenWord

\* which branch of the loop body runs at index k
branch(runes, k) ==
    LET r == Rune(runes, k)
    IN  IF isBlank(r) THEN "whitespace"
        ELSE IF isQuote(r) THEN "string"
        ELSE IF r = "\\" /\ k = Len(runes) - 1 THEN "continuation"
        ELSE IF matchOperator(runes, k) # "" THEN "operator"
        ELSE "word"

\* a byte of the line that is no valid UTF-8, and the rune U+FFFD that
\* stands for it once the line is decoded; every other character of the
\* model is one rune
InvalidByte == "#"

ReplacementChar == "?"

RECURSIVE runesOfDroppingInvalid(_)
\* []rune(s) as it would be if the decoding skipped the invalid bytes
runesOfDroppingInvalid(s) ==
    IF s = "" THEN ""
    ELSE (IF SubSeq(s, 1, 1) = InvalidByte THEN "" ELSE SubSeq(s, 1, 1))
            \o runesOfDroppingInvalid(SubSeq(s, 2, Len(s)))

RECURSIVE runesOf(_)
\* []rune(s): each invalid byte decodes to U+FFFD, so a line without one
\* decodes to itself; string(runes[a:b]) encodes the runes as they are
runesOf(s) ==
    IF \A i \in 1..Len(s) : SubSeq(s, i, i) # InvalidByte THEN s
    ELSE (IF SubSeq(s, 1, 1) = InvalidByte
          THEN ReplacementChar ELSE SubSeq(s, 1, 1))
            \o runesOf(SubSeq(s, 2, Len(s)))

\* runes := []rune(line)
runes == runesOf(line)

tokenizeWhitespace ==
    /\ tpos < Len(runes)
    /\ branch(runes, tpos) = "whitespace"
    /\ LET k == scanWhitespace(runes, tpos)
       IN  /\ tokens' = Append(tokens,
                               exampleToken(Slice(runes, tpos, k), tokenWhitespace))
           /\ tpos' = k
    /\ UNCHANGED <<line, enumVars, cliVars, helpVars>>

tokenizeString ==
    /\ tpos < Len(runes)
    /\ branch(runes, tpos) = "string"
    /\ LET k == endOfString(runes, tpos)
       IN  /\ tokens' = Append(tokens,
                               exampleToken(Slice(runes, tpos, k), tokenString))
           /\ tpos' = k
    /\ UNCHANGED <<line, enumVars, cliVars, helpVars>>

tokenizeLineContinuation ==
    /\ tpos < Len(runes)
    /\ branch(runes, tpos) = "continuation"
    /\ tokens' = Append(tokens, exampleToken("\\", tokenLineContinuation))
    /\ tpos' = tpos + 1
    /\ UNCHANGED <<line, enumVars, cliVars, helpVars>>

tokenizeOperator ==
    /\ tpos < Len(runes)
    /\ branch(runes, tpos) = "operator"
    /\ LET op == matchOperator(runes, tpos)
       IN  /\ tokens' = Append(tokens, exampleToken(op, tokenOperator))
           /\ tpos' = tpos + Len(op)
    /\ UNCHANGED <<line, enumVars, cliVars, helpVars>>

tokenizeWord ==
    /\ tpos < Len(runes)
    /\ branch(runes, tpos) = "word"
    /\ LET k == scanWord(runes, tpos)
           word == Slice(runes, tpos, k)
       IN  /\ tokens' = IF word # ""
                        THEN Append(tokens,
                                    exampleToken(word, wordType(tokens, word)))
                        ELSE tokens
           /\ tpos' = k
    /\ UNCHANGED <<line, enumVars, cliVars, helpVars>>

\* the lines given to tokenizeExample
Alphabet == {"a", "=", "-", " ", "\"", "'", "\\", "|", ">"}

RECURSIVE StringsUpTo(_, _)
StringsUpTo(chars, n) ==
    IF n = 0 THEN {""}
    ELSE LET shorter == StringsUpTo(chars, n - 1)
         IN  shorter \cup {s \o c : s \in shorter, c \in chars}

Phrases == {"VAR1=val1", "cmd", " ", "\t", "--flag=value", "&&", "&", ";", "<<", "<",
            "\"hello \\\"world\\\"\"", "\\"}

RECURSIVE PhraseLines(_)
PhraseLines(n) ==
    IF n = 0 THEN {""}
    ELSE LET shorter == PhraseLines(n - 1)
         IN  shorter \cup {s \o p : s \in shorter, p \in Phrases}

ExampleLines == StringsUpTo(Alphabet, MaxLen) \cup PhraseLines(MaxPhrases)

TokInit ==
    /\ line \in ExampleLines
    /\ tpos = 0
    /\ tokens = <<>>
    /\ EnumIdle
    /\ CliIdle
    /\ HelpIdle

TokNext ==
    \/ tokenizeWhitespace
    \/ tokenizeString
    \/ tokenizeLineContinuation
    \/ tokenizeOperator
    \/ tokenizeWord

SpecTokenize == TokInit /\ [][TokNext]_vars

\* the loop of tokenizeExample has ended
tokenized == tpos >= Len(runes)

----------------------------------------------------------------------------
(* Properties of the tokenizer *)

RECURSIVE tokenStart(_, _)
\* the index in the line at which token k starts
tokenStart(toks, k) ==
    IF k = 1 THEN 0 ELSE tokenStart(toks, k - 1) + Len(toks[k - 1].value)

tokenEnd(toks, k) == tokenStart(toks, k) + Len(toks[k].value)

\* token k came out of the word rule
isWordLike(toks, k) == toks[k].tokenType \in {tokenWord, tokenEnvAssign}

\* index p of the line lies inside a quoted-string token
inString(p) ==
    \E k \in 1..Len(tokens) :
        /\ tokens[k].tokenType = tokenString
        /\ tokenStart(tokens, k) <= p /\ p < tokenEnd(tokens, k)

\* the operators, as a set, and the longest one that starts at index p
OperatorSet == {">>", "<<", "&&", "||", "|", ">", "<", ";", "&"}

operatorsAt(p) == {op \in OperatorSet : HasPrefix(Slice(line, p, Len(line)), op)}

longestOperatorAt(p) ==
    CHOOSE op \in operatorsAt(p) : \A o \in operatorsAt(p) : Len(o) <= Len(op)

\* C7 as stated: a word is an envAssignment exactly when every earlier token
\* is whitespace or envAssignment, the word has an '=' at some index greater
\* than 0, and the word does not start with '-'.
C7_AnyEqualsLaterThanZero ==
    tokenized =>
        \A k \in 1..Len(tokens) :
            isWordLike(tokens, k) =>
                (tokens[k].tokenType = tokenEnvAssign
                    <=> /\ allEnvOrWhitespace(SubSeq(tokens, 1, k - 1))
                        /\ \E j \in 1..(Len(tokens[k].value) - 1) :
                               Rune(tokens[k].value, j) = "="
                        /\ Rune(tokens[k].value, 0) # "-")

\* C7 amended: a word is an envAssignment exactly when every earlier token is
\* whitespace or envAssignment, the FIRST '=' of the word is at an index
\* greater than 0 (the word has an '=' and does not start with one), and the
\* word does not start with '-'.  Hence a word after any word, operator or
\* quoted string, and a word starting with '-', is a plain word.
C7_EnvAssignIffLeadingNameEquals ==
    tokenized =>
        \A k \in 1..Len(tokens) :
            LET v == tokens[k].value
                eqs == {j \in 0..(Len(v) - 1) : Rune(v, j) = "="}
                before == {tokens[j].tokenType : j \in 1..(k - 1)}
            IN  isWordLike(tokens, k) =>
                    (tokens[k].tokenType = tokenEnvAssign
                        <=> /\ before \subseteq {tokenWhitespace, tokenEnvAssign}
                            /\ eqs # {} /\ 0 \notin eqs
                            /\ Rune(v, 0) # "-")

\* two leading assignments in a row
C7_Witness ==
    /\ tokenized
    /\ \E k \in 1..Len(tokens) : \E m \in (k + 1)..Len(tokens) :
          /\ tokens[k].tokenType = tokenEnvAssign
          /\ tokens[m].tokenType = tokenEnvAssign

\* C8: every operator token holds the longest operator that starts at its
\* index; wherever an operator starts outside a quoted string a token starts
\* there or an operator token covers it, so no word contains an operator; and
\* no two adjacent one-character operator tokens spell a two-character one.
C8_LongestOperator ==
    tokenized =>
        /\ \A k \in 1..Len(tokens) :
              LET p == tokenStart(tokens, k)
              IN  /\ tokens[k].tokenType = tokenOperator
                        => /\ operatorsAt(p) # {}
                           /\ tokens[k].value = longestOperatorAt(p)
                  /\ (tokens[k].tokenType # tokenString /\ operatorsAt(p) # {})
                        => tokens[k].tokenType = tokenOperator
                  /\ isWordLike(tokens, k)
                        => \A q \in p..(tokenEnd(tokens, k) - 1) : operatorsAt(q) = {}
        /\ \A k \in 1..(Len(tokens) - 1) :
              (tokens[k].tokenType = tokenOperator
                 /\ tokens[k + 1].tokenType = tokenOperator
                 /\ Len(tokens[k].value) = 1 /\ Len(tokens[k + 1].value) = 1)
                => (tokens[k].value \o tokens[k + 1].value) \notin OperatorSet

\* a two-character operator straight after a word, no blank between
C8_Witness ==
    /\ tokenized
    /\ \E k \in 2..Len(tokens) :
          /\ tokens[k].tokenType = tokenOperator
          /\ Len(tokens[k].value) = 2
          /\ tokens[k - 1].tokenType = tokenWord

\* index j, inside a string that opens at p, is the target of a backslash
RECURSIVE isEscaped(_, _)
isEscaped(p, j) ==
    /\ j - 1 > p
    /\ Rune(line, j - 1) = "\\"
    /\ ~isEscaped(p, j - 1)

\* the closing quotes of a string that opens at p: the same quote character,
\* not the target of an escape, all earlier ones being escaped
closingQuotes(p) ==
    {e \in (p + 1)..(Len(line) - 1) :
        /\ Rune(line, e) = Rune(line, p)
        /\ ~isEscaped(p, e)
        /\ \A j \in (p + 1)..(e - 1) :
              Rune(line, j) = Rune(line, p) => isEscaped(p, j)}

\* C9: a quote outside a string opens exactly one quotedString token, which
\* runs through the next same quote that is not an escape target, or to the
\* end of the line when there is none; no quote is left outside a string.
C9_QuotedString ==
    tokenized =>
        \A k \in 1..Len(tokens) :
            LET p == tokenStart(tokens, k)
            IN  /\ tokens[k].tokenType = tokenString =>
                      /\ isQuote(Rune(line, p))
                      /\ tokens[k].value =
                            IF closingQuotes(p) = {}
                            THEN Slice(line, p, Len(line))
                            ELSE Slice(line, p, (CHOOSE e \in closingQuotes(p) : TRUE) + 1)
                /\ tokens[k].tokenType # tokenString =>
                      \A q \in p..(tokenEnd(tokens, k) - 1) : ~isQuote(Rune(line, q))

\* a closed string that holds an escaped quote of its own kind
C9_Witness ==
    /\ tokenized
    /\ \E k \in 1..Len(tokens) :
          LET p == tokenStart(tokens, k)
          IN  /\ tokens[k].tokenType = tokenString
              /\ closingQuotes(p) # {}
              /\ \E j \in (p + 1)..(tokenEnd(tokens, k) - 2) :
                    Rune(line, j) = Rune(line, p)

\* C10: a lineContinuation token is emitted exactly when the last character
\* of the line is a backslash outside every quoted string; there is at most
\* one, it is the last token, and any other backslash outside a string lies
\* in a token made by the word rule.
C10_LineContinuation ==
    tokenized =>
        LET conts == {k \in 1..Len(tokens) :
                         tokens[k].tokenType = tokenLineContinuation}
            last == Len(line) - 1
        IN  /\ conts # {} <=> (Len(line) > 0 /\ Rune(line, last) = "\\"
                                 /\ ~inString(last))
            /\ Cardinality(conts) <= 1
            /\ conts \subseteq {Len(tokens)}
            /\ \A k \in conts : tokens[k].value = "\\"
            /\ \A k \in 1..Len(tokens) :
                  \A q \in tokenStart(tokens, k)..(tokenEnd(tokens, k) - 1) :
                      (Rune(line, q) = "\\" /\ q # last
                         /\ tokens[k].tokenType # tokenString)
                        => isWordLike(tokens, k)

\* a word holding a backslash, and a final backslash as a continuation
C10_Witness ==
    /\ tokenized
    /\ Len(tokens) >= 2
    /\ tokens[Len(tokens)].tokenType = tokenLineContinuation
    /\ \E k \in 1..(Len(tokens) - 1) :
          /\ isWordLike(tokens, k)
          /\ Contains(tokens[k].value, "\\")

----------------------------------------------------------------------------
(* pflag values: what Value.Set does for each kind of flag *)

\* s is an optional sign followed by decimal digits
isDecimal(s) ==
    LET body == IF HasPrefix(s, "-") \/ HasPrefix(s, "+")
                THEN Slice(s, 1, Len(s)) ELSE s
    IN  /\ Len(body) > 0
        /\ \A k \in 0..(Len(body) - 1) : Index(Digits, Rune(body, k)) >= 0

RECURSIVE parseNat(_)
\* the number that a string of decimal digits denotes
parseNat(s) ==
    IF Len(s) = 0 THEN 0
    ELSE 10 * parseNat(Slice(s, 0, Len(s) - 1))
           + Index(Digits, Rune(s, Len(s) - 1))

\* strconv.ParseInt on a decimal numeral
parseInt(s) ==
    IF HasPrefix(s, "-") THEN 0 - parseNat(Slice(s, 1, Len(s)))
    ELSE IF HasPrefix(s, "+") THEN parseNat(Slice(s, 1, Len(s)))
    ELSE parseNat(s)

\* strconv.ParseBool
boolTrue == {"1", "t", "T", "TRUE", "true", "True"}

boolFalse == {"0", "f", "F", "FALSE", "false", "False"}

syntaxError(fn, s) == "strconv." \o fn \o ": parsing \"" \o s \o "\": invalid syntax"

\* flag.Value.Set(s) on a value of the given kind that reads cur and whose
\* changed field is chg: the error, the new String() and the new changed
valueSet(kind, cur, chg, s) ==
    IF kind = "bool"
    THEN IF s \in boolTrue THEN [err |-> NoError, value |-> "true", changed |-> chg]
         ELSE IF s \in boolFalse
              THEN [err |-> NoError, value |-> "false", changed |-> chg]
         ELSE [err |-> syntaxError("ParseBool", s), value |-> "false", changed |-> chg]
    ELSE IF kind = "int"
    THEN IF isDecimal(s)
         THEN [err |-> NoError, value |-> FormatInt(parseInt(s)), changed |-> chg]
         ELSE [err |-> syntaxError("ParseInt", s), value |-> "0", changed |-> chg]
    ELSE IF kind = "stringSlice"
    THEN [err |-> NoError,
          value |-> IF ~chg \/ cur = "[]"
                    THEN "[" \o s \o "]"
                    ELSE Slice(cur, 0, Len(cur) - 1) \o "," \o s \o "]",
          changed |-> TRUE]
    ELSE [err |-> NoError, value |-> s, changed |-> chg]

----------------------------------------------------------------------------
(* Environment bindings, env.go *)

\* os.Getenv
Getenv(env, k) == IF env[k] = Unset THEN "" ELSE env[k]

\* BindEnv as it would be if a nil flag stood for the first flag
BindEnvOnFirstFlag(flag, envVar) ==
    /\ pc = "setup"
    /\ envAnnotation' =
          [envAnnotation EXCEPT ![IF flag = NilFlag THEN FlagNames[1] ELSE flag]
                                   = <<envVar>>]
    /\ UNCHANGED <<flagVars, requiresAnnotation, environ, args, pc, execErr,
                   ran, seen>>

BindEnv(flag, envVar) ==
    /\ pc = "setup"
    /\ envAnnotation' = IF flag = NilFlag THEN envAnnotation
                        ELSE [envAnnotation EXCEPT ![flag] = <<envVar>>]
    /\ UNCHANGED <<flagVars, requiresAnnotation, environ, args, pc, execErr,
                   ran, seen>>

GetEnvVar(flag) ==
    IF flag = NilFlag THEN ""
    ELSE IF Len(envAnnotation[flag]) > 0 THEN envAnnotation[flag][1]
    ELSE ""

\* applyEnvToFlag as it would be if it set the flag with FlagSet.Set, which
\* marks the flag as changed
applyEnvToFlagMarkingChanged(st, flag) ==
    LET envVar == GetEnvVar(flag)
        val == Getenv(environ, envVar)
        set == valueSet(FlagKind[flag], st.value[flag], st.vchanged[flag], val)
    IN  IF envVar = "" THEN st
        ELSE IF val = "" \/ st.changed[flag] THEN st
        ELSE IF set.err # NoError
        THEN [st EXCEPT !.value[flag] = set.value,
                        !.err = "invalid value for --" \o flag
                                \o " from environment variable " \o envVar
                                \o ": " \o set.err]
        ELSE [st EXCEPT !.value[flag] = set.value,
                        !.vchanged[flag] = set.changed,
                        !.changed[flag] = TRUE]

\* the flags after applyEnvToFlag(flag); st holds their value, the changed
\* field of the value, Changed, and the error returned so far
applyEnvToFlag(st, flag) ==
    LET envVar == GetEnvVar(flag)
        val == Getenv(environ, envVar)
        set == valueSet(FlagKind[flag], st.value[flag], st.vchanged[flag], val)
    IN  IF envVar = "" THEN st
        ELSE IF val = "" \/ st.changed[flag] THEN st
        ELSE IF set.err # NoError
        THEN [st EXCEPT !.value[flag] = set.value,
                        !.err = "invalid value for --" \o flag
                                \o " from environment variable " \o envVar
                                \o ": " \o set.err]
        ELSE [st EXCEPT !.value[flag] = set.value,
                        !.vchanged[flag] = set.changed]

RECURSIVE applyEnvBindingsKeepingLast(_, _)
\* applyEnvBindings as it would be if the callback did not return early
\* after a failure, so that the last failure is the one returned
applyEnvBindingsKeepingLast(st, k) ==
    IF k > Len(FlagNames) THEN st
    ELSE LET next == applyEnvToFlag([st EXCEPT !.err = NoError], FlagNames[k])
         IN  applyEnvBindingsKeepingLast(
                 IF next.err # NoError THEN next ELSE [next EXCEPT !.err = st.err],
                 k + 1)

RECURSIVE applyEnvBindingsFrom(_, _)
\* the VisitAll of applyEnvBindings from the k-th flag on: once a flag has
\* failed, the callback returns at once for the rest
applyEnvBindingsFrom(st, k) ==
    IF k > Len(FlagNames) THEN st
    ELSE IF st.err # NoError THEN applyEnvBindingsFrom(st, k + 1)
    ELSE applyEnvBindingsFrom(applyEnvToFlag(st, FlagNames[k]), k + 1)

applyEnvBindings(st) == applyEnvBindingsFrom(st, 1)

----------------------------------------------------------------------------
(* Flag requirements, require.go *)

MarkFlagRequires(flag, flagNames) ==
    /\ pc = "setup"
    /\ requiresAnnotation' =
          IF flag = NilFlag THEN requiresAnnotation
          ELSE [requiresAnnotation EXCEPT ![flag] = @ \o flagNames]
    /\ UNCHANGED <<flagVars, envAnnotation, environ, args, pc, execErr, ran,
                   seen>>

GetFlagRequires(flag) ==
    IF flag = NilFlag THEN <<>> ELSE requiresAnnotation[flag]

RECURSIVE missingFrom(_, _, _)
\* the loop of validateFlagRequires over requires[k..]
missingFrom(changed, requires, k) ==
    IF k > Len(requires) THEN <<>>
    ELSE LET req == requires[k]
             unset == req \notin FlagSet \/ ~changed[req]
         IN  (IF unset THEN <<"--" \o req>> ELSE <<>>)
                \o missingFrom(changed, requires, k + 1)

\* validateFlagRequires as it would be if it reported the first unset
\* requirement only
validateFlagRequiresFirstOnly(changed, flag) ==
    LET requires == GetFlagRequires(flag)
        missing == missingFrom(changed, requires, 1)
    IN  IF Len(requires) = 0 \/ ~changed[flag] THEN NoError
        ELSE IF Len(missing) > 0
        THEN "flag --" \o flag \o " requires " \o missing[1]
        ELSE NoError

\* validateFlagRequires as it would be if it did not look at the flag's own
\* Changed
validateFlagRequiresUnconditional(changed, flag) ==
    LET requires == GetFlagRequires(flag)
        missing == missingFrom(changed, requires, 1)
    IN  IF Len(requires) = 0 THEN NoError
        ELSE IF Len(missing) > 0
        THEN "flag --" \o flag \o " requires " \o Join(missing, ", ")
        ELSE NoError

validateFlagRequires(changed, flag) ==
    LET requires == GetFlagRequires(flag)
        missing == missingFrom(changed, requires, 1)
    IN  IF Len(requires) = 0 \/ ~changed[flag] THEN NoError
        ELSE IF Len(missing) > 0
        THEN "flag --" \o flag \o " requires " \o Join(missing, ", ")
        ELSE NoError

RECURSIVE validateFlagRequirementsFrom(_, _)
\* the VisitAll of validateFlagRequirements: the first error is kept
validateFlagRequirementsFrom(changed, k) ==
    IF k > Len(FlagNames) THEN NoError
    ELSE LET err == validateFlagRequires(changed, FlagNames[k])
         IN  IF err # NoError THEN err
             ELSE validateFlagRequirementsFrom(changed, k + 1)

validateFlagRequirements(changed) == validateFlagRequirementsFrom(changed, 1)

\* the PersistentPreRunE that addFlagRequirementsValidation installs, on a
\* command that had neither PersistentPreRunE nor PersistentPreRun
persistentPreRunE(changed) == validateFlagRequirements(changed)

\* Execute applies addFlagRequirementsValidation to the command
requirementsInstalled == TRUE

----------------------------------------------------------------------------
(* Execute, cli.go *)

\* pflag parsing one given flag: Set, then Changed
parseFlag(st, flag) ==
    LET set == valueSet(FlagKind[flag], st.value[flag], st.vchanged[flag],
                        args[flag])
    IN  IF args[flag] = NotGiven THEN st
        ELSE IF set.err # NoError
        THEN [st EXCEPT !.value[flag] = set.value,
                        !.err = "invalid argument \"" \o args[flag]
                                \o "\" for \"--" \o flag \o "\" flag: "
                                \o set.err]
        ELSE [st EXCEPT !.value[flag] = set.value,
                        !.vchanged[flag] = set.changed,
                        !.changed[flag] = TRUE]

RECURSIVE parseFlagsFrom(_, _)
\* cobra parsing the command line: it stops at the first flag that fails
parseFlagsFrom(st, k) ==
    IF k > Len(FlagNames) \/ st.err # NoError THEN st
    ELSE parseFlagsFrom(parseFlag(st, FlagNames[k]), k + 1)

\* cmd.ExecuteContext: parse, then the persistent pre-run hook, then Run
executeContext(st) ==
    LET parsed == parseFlagsFrom(st, 1)
        hookErr == IF requirementsInstalled
                   THEN persistentPreRunE(parsed.changed) ELSE NoError
    IN  IF parsed.err # NoError THEN [parsed EXCEPT !.ran = FALSE]
        ELSE IF hookErr # NoError THEN [parsed EXCEPT !.err = hookErr, !.ran = FALSE]
        ELSE [parsed EXCEPT !.ran = TRUE]

\* what Execute leaves and returns
executed ==
    LET start == [value |-> flagValue, vchanged |-> valueChanged,
                  changed |-> flagChanged, err |-> NoError, ran |-> FALSE]
        bound == applyEnvBindings(start)
    IN  IF bound.err # NoError THEN bound ELSE executeContext(bound)

Execute ==
    /\ pc = "setup"
    /\ pc' = "done"
    /\ flagValue' = executed.value
    /\ valueChanged' = executed.vchanged
    /\ flagChanged' = executed.changed
    /\ execErr' = executed.err
    /\ ran' = executed.ran
    /\ seen' = IF executed.ran THEN executed.value ELSE seen
    /\ UNCHANGED <<envAnnotation, requiresAnnotation, environ, args>>

\* os.Setenv, os.Unsetenv and cmd.SetArgs before Execute
Setenv(k, v) ==
    /\ pc = "setup"
    /\ environ' = [environ EXCEPT ![k] = v]
    /\ UNCHANGED <<flagVars, envAnnotation, requiresAnnotation, args, pc,
                   execErr, ran, seen>>

Unsetenv(k) ==
    /\ pc = "setup"
    /\ environ' = [environ EXCEPT ![k] = Unset]
    /\ UNCHANGED <<flagVars, envAnnotation, requiresAnnotation, args, pc,
                   execErr, ran, seen>>

SetArgs(a) ==
    /\ pc = "setup"
    /\ args' = a
    /\ UNCHANGED <<flagVars, envAnnotation, requiresAnnotation, environ, pc,
                   execErr, ran, seen>>

\* the values put in the environment, and given to each flag on the command
\* line (a bare --check reads "true")
EnvValues == {"", "from-env", "1"}

ArgValue ==
    [check |-> "true", key |-> "from-flag", port |-> "7", tags |-> "x,y"]

ArgSets == {[f \in FlagSet |-> IF f \in given THEN ArgValue[f] ELSE NotGiven] :
               given \in SUBSET FlagSet}

\* the names a requirement may name: the flags, and one that is no flag
RequireNames == FlagSet \cup {"missing"}

\* the number of requirements declared so far
RECURSIVE requiresCount(_)
requiresCount(k) ==
    IF k = 0 THEN 0
    ELSE Len(requiresAnnotation[FlagNames[k]]) + requiresCount(k - 1)

CliInit ==
    /\ CliIdle
    /\ TokIdle
    /\ EnumIdle
    /\ HelpIdle

EnvNext ==
    \/ \E flag \in FlagSet \cup {NilFlag} : \E envVar \in EnvVars \cup {""} :
          BindEnv(flag, envVar) /\ UNCHANGED <<tokVars, enumVars, helpVars>>
    \/ \E k \in EnvVars : \E v \in EnvValues :
          Setenv(k, v) /\ UNCHANGED <<tokVars, enumVars, helpVars>>
    \/ \E k \in EnvVars :
          Unsetenv(k) /\ UNCHANGED <<tokVars, enumVars, helpVars>>
    \/ \E a \in ArgSets : SetArgs(a) /\ UNCHANGED <<tokVars, enumVars, helpVars>>
    \/ Execute /\ UNCHANGED <<tokVars, enumVars, helpVars>>

SpecEnv == CliInit /\ [][EnvNext]_vars

RequiresNext ==
    \/ \E flag \in FlagSet \cup {NilFlag} :
       \E flagNames \in SeqsUpTo(RequireNames, MaxMark) :
          /\ requiresCount(Len(FlagNames)) + Len(flagNames) <= MaxRequires
          /\ MarkFlagRequires(flag, flagNames)
          /\ UNCHANGED <<tokVars, enumVars, helpVars>>
    \/ \E a \in ArgSets : SetArgs(a) /\ UNCHANGED <<tokVars, enumVars, helpVars>>
    \/ Execute /\ UNCHANGED <<tokVars, enumVars, helpVars>>

SpecRequires == CliInit /\ [][RequiresNext]_vars

----------------------------------------------------------------------------
(* Properties of Execute *)

\* the flag was given on the command line
given(flag) == args[flag] # NotGiven

\* what a flag of this kind reads after one Set(s) on a fresh value, or a
\* text no flag reads if Set rejects s
fresh(flag, s) ==
    LET set == valueSet(FlagKind[flag], FlagDefault[flag], FALSE, s)
    IN  IF set.err = NoError THEN set.value ELSE "<rejected>"

\* the flag's type rejects s
rejects(flag, s) ==
    valueSet(FlagKind[flag], FlagDefault[flag], FALSE, s).err # NoError

\* the flags bound to a variable
boundFlags == {f \in FlagSet : GetEnvVar(f) # ""}

\* C1: when Execute runs the command, a bound flag reads the command-line
\* value if it was given, else the value of its variable if that is set
\* (read as os.Getenv reads it: not empty), else its default.
C1_Precedence ==
    (pc = "done" /\ ran) =>
        \A f \in boundFlags :
            seen[f] = IF given(f) THEN fresh(f, args[f])
                      ELSE IF Getenv(environ, GetEnvVar(f)) # ""
                           THEN fresh(f, Getenv(environ, GetEnvVar(f)))
                      ELSE FlagDefault[f]

\* the requirements of a flag that are not provided
unprovided(flag) ==
    {requiresAnnotation[flag][k] : k \in
        {j \in 1..Len(requiresAnnotation[flag]) :
            requiresAnnotation[flag][j] \notin FlagSet
              \/ ~given(requiresAnnotation[flag][j])}}

\* the provided flags that have a requirement not provided
unsatisfied == {f \in FlagSet : given(f) /\ unprovided(f) # {}}

\* the first flag of a non-empty set, in the order of FlagNames
firstOf(S) ==
    FlagNames[CHOOSE k \in 1..Len(FlagNames) :
                 /\ FlagNames[k] \in S
                 /\ \A j \in 1..(k - 1) : FlagNames[j] \notin S]

unsetRequirements(flag) ==
    LET requires == requiresAnnotation[flag]
        unsetAt == {k \in 1..Len(requires) :
                       requires[k] \notin FlagSet \/ ~flagChanged[requires[k]]}
        nth(n) == CHOOSE k \in unsetAt :
                      Cardinality({j \in unsetAt : j < k}) = n - 1
    IN  [n \in 1..Cardinality(unsetAt) |-> "--" \o requires[nth(n)]]

\* C5: on the flags as Execute has parsed them, validateFlagRequires returns
\* an error exactly for a Changed flag with a requirement that is not set,
\* and the error reads "flag --<name> requires " and then the unset
\* requirements, all of them and only them, as --<r> joined by ", ", in the
\* order of declaration.
C5_AllUnsetRequirementsListed ==
    pc = "done" =>
        \A f \in FlagSet :
            validateFlagRequires(flagChanged, f) =
                IF flagChanged[f] /\ Len(unsetRequirements(f)) > 0
                THEN "flag --" \o f \o " requires "
                        \o Join(unsetRequirements(f), ", ")
                ELSE NoError

\* Execute returned the error of a flag declared with two requirements, both
\* unset
C5_Witness ==
    /\ pc = "done"
    /\ \E f \in FlagSet :
          /\ flagChanged[f]
          /\ Len(unsetRequirements(f)) = 2
          /\ unsetRequirements(f)[1] # unsetRequirements(f)[2]
          /\ execErr = validateFlagRequires(flagChanged, f)

\* the bound flags whose variable holds a non-empty value the type rejects
rejectedFlags ==
    {f \in boundFlags :
        /\ Getenv(environ, GetEnvVar(f)) # ""
        /\ rejects(f, Getenv(environ, GetEnvVar(f)))}

envError(f) ==
    "invalid value for --" \o f \o " from environment variable " \o GetEnvVar(f)

\* C6 as stated: for every bound flag not given on the command line whose
\* variable is set (not empty) to a value its type rejects, Execute returns an
\* error containing "invalid value for --<flag> from environment variable
\* <VAR>", and Run is not invoked.
C6_EveryRejectedFlagNamed ==
    pc = "done" =>
        \A f \in rejectedFlags :
            ~given(f) => (Contains(execErr, envError(f)) /\ ~ran)

\* C6 amended: if a bound flag not given on the command line has its variable
\* set to a non-empty value its type rejects, Execute returns an error and Run
\* is not invoked; the error is that of the first bound flag, in flag-name
\* order, whose variable holds a non-empty value its type rejects: "invalid
\* value for --<flag> from environment variable <VAR>: " and the parse error.
C6_FirstRejectedFlagNamed ==
    pc = "done" =>
        \A f \in rejectedFlags :
            ~given(f) =>
                LET g == firstOf(rejectedFlags)
                IN  /\ ~ran
                    /\ execErr = envError(g) \o ": "
                                   \o valueSet(FlagKind[g], FlagDefault[g], FALSE,
                                               Getenv(environ, GetEnvVar(g))).err

\* two flags, neither given, each bound to a variable holding a value that
\* its type rejects
C6_Witness ==
    /\ pc = "done"
    /\ Cardinality({f \in rejectedFlags : ~given(f)}) >= 2
    /\ ~ran
    /\ Contains(execErr, "invalid syntax")


----------------------------------------------------------------------------
(* styleExampleLine (help.go): the loop over the tokens of an example line *)

\* a piece written to result: the theme style it was rendered with ("" when
\* it was written as is) and the index of the token it was written for
piece(style, str, k) == [style |-> style, text |-> str, token |-> k]

\* the operators after which the next word is a command
commandOperators == {"|", ";", "&&", "||"}

\* case tokenEnvAssign: the name up to and including "=", then the value
styleEnvAssign(str, k) ==
    LET idx == Index(str, "=")
    IN  IF idx # -1
        THEN <<piece("EnvVar", Slice(str, 0, idx + 1), k),
               piece("EnvVarValue", Slice(str, idx + 1, Len(str)), k)>>
        ELSE <<piece("EnvVar", str, k)>>

\* styleFlag as it would be if a flag were styled whole, value included
styleFlagWithValue(str, k) == <<piece("Flag", str, k)>>

\* case strings.HasPrefix(token.value, "-")
styleFlag(str, k) ==
    LET idx == Index(str, "=")
    IN  IF idx # -1
        THEN <<piece("Flag", Slice(str, 0, idx + 1), k),
               piece("", Slice(str, idx + 1, Len(str)), k)>>
        ELSE <<piece("Flag", str, k)>>

\* styleWord as it would be if only the root command name were a command in
\* command position
styleWordRootOnly(expect, str, k) ==
    IF expect /\ str = rootCmd
    THEN [pieces |-> <<piece("Command", str, k)>>, expect |-> FALSE]
    ELSE IF str \in subcommands
    THEN [pieces |-> <<piece("Command", str, k)>>, expect |-> FALSE]
    ELSE IF HasPrefix(str, "-")
    THEN [pieces |-> styleFlag(str, k), expect |-> expect]
    ELSE [pieces |-> <<piece("", str, k)>>, expect |-> expect]

\* case tokenWord: the pieces written and the new value of expectCommand
styleWord(expect, str, k) ==
    IF expect /\ str = rootCmd
    THEN [pieces |-> <<piece("Command", str, k)>>, expect |-> FALSE]
    ELSE IF str \in subcommands
    THEN [pieces |-> <<piece("Command", str, k)>>, expect |-> FALSE]
    ELSE IF expect
    THEN [pieces |-> <<piece("Command", str, k)>>, expect |-> FALSE]
    ELSE IF HasPrefix(str, "-")
    THEN [pieces |-> styleFlag(str, k), expect |-> expect]
    ELSE [pieces |-> <<piece("", str, k)>>, expect |-> expect]

\* the switch on token.tokenType
styleSwitch(expect, token, k) ==
    IF token.tokenType = tokenWhitespace
    THEN [pieces |-> <<piece("", token.value, k)>>, expect |-> expect]
    ELSE IF token.tokenType = tokenOperator
    THEN [pieces |-> <<piece("Operator", token.value, k)>>,
          expect |-> IF token.value \in commandOperators THEN TRUE ELSE expect]
    ELSE IF token.tokenType = tokenString
    THEN [pieces |-> <<piece("", token.value, k)>>, expect |-> expect]
    ELSE IF token.tokenType = tokenEnvAssign
    THEN [pieces |-> styleEnvAssign(token.value, k), expect |-> expect]
    ELSE IF token.tokenType = tokenLineContinuation
    THEN [pieces |-> <<piece("Operator", token.value, k)>>, expect |-> expect]
    ELSE styleWord(expect, token.value, k)

\* one iteration of the loop over tokens, once tokenizeExample has returned
styleToken ==
    /\ tokenized
    /\ spos < Len(tokens)
    /\ LET styled == styleSwitch(expectCommand, tokens[spos + 1], spos)
       IN  /\ result' = result \o styled.pieces
           /\ expectCommand' = styled.expect
    /\ spos' = spos + 1
    /\ UNCHANGED <<tokVars, rootCmd, subcommands>>
    /\ UNCHANGED <<enumVars, cliVars, groupVars, usageVars, textVars, moreVars>>

\* the example lines given to styleExampleLine
StyleOperators == {shellOperators[k] : k \in 1..Len(shellOperators)}

StylePhrases ==
    {"cmd", " sub", " x", " -f", " --f=v", "A=1 ", "'q' ", "\\"}
        \cup {"cmd" \o op : op \in StyleOperators}

RECURSIVE StylePhraseLines(_)
StylePhraseLines(n) ==
    IF n = 0 THEN {""}
    ELSE LET shorter == StylePhraseLines(n - 1)
         IN  shorter \cup {s \o p : s \in shorter, p \in StylePhrases}

StyleInit ==
    /\ line \in StylePhraseLines(MaxStylePhrases)
    /\ tpos = 0
    /\ tokens = <<>>
    /\ rootCmd = "cmd"
    /\ subcommands \in {{}, {"sub"}}
    /\ spos = 0
    /\ expectCommand = TRUE
    /\ result = <<>>
    /\ EnumIdle
    /\ CliIdle
    /\ GroupIdle
    /\ UsageIdle
    /\ TextIdle
    /\ MoreIdle

StyleNext ==
    \/ TokNext
    \/ styleToken

SpecStyle == StyleInit /\ [][StyleNext]_vars

----------------------------------------------------------------------------
(* Properties of styleExampleLine *)

\* the pieces written for token k
piecesOf(k) == SelectSeq(result, LAMBDA p : p.token = k)

\* token k was written whole in the command style
commandStyled(k) ==
    piecesOf(k) = <<piece("Command", tokens[k + 1].value, k)>>

RECURSIVE expectBefore(_)
\* whether a command is expected when token k is reached: at the start of
\* the line and after |, ;, && or ||, not after a word, else as before
expectBefore(k) ==
    IF k = 0 THEN TRUE
    ELSE LET prev == tokens[k]
         IN  IF prev.tokenType = tokenOperator
                /\ prev.value \in {"|", ";", "&&", "||"}
             THEN TRUE
             ELSE IF prev.tokenType = tokenWord THEN FALSE
             ELSE expectBefore(k - 1)

\* C11: a word is styled as a command if and only if a command is expected
\* when it is reached or it is a subcommand name, where a command is
\* expected at the start of the line and after |, ;, && and ||, no longer
\* after a word, and as before after any other token.
C11_CommandStyling ==
    /\ expectCommand = expectBefore(spos)
    /\ \A k \in 0..(spos - 1) :
          tokens[k + 1].tokenType = tokenWord
              => (commandStyled(k)
                     <=> (expectBefore(k) \/ tokens[k + 1].value \in subcommands))

\* "cmd1 && cmd2": both words have been written as commands, the second
\* being neither the root command nor a subcommand
C11_Witness ==
    /\ spos = Len(tokens)
    /\ \E i, j, k \in 0..(spos - 1) :
          /\ i < j /\ j < k
          /\ tokens[i + 1].tokenType = tokenWord /\ commandStyled(i)
          /\ tokens[j + 1] = exampleToken("&&", tokenOperator)
          /\ tokens[k + 1].tokenType = tokenWord /\ commandStyled(k)
          /\ tokens[k + 1].value \notin subcommands \cup {rootCmd}

\* C12: a word that is not styled as a command and begins with "-" is
\* styled as a flag, up to and including its first "=" when it has one, the
\* rest being written unstyled; any other word that is not styled as a
\* command is written unstyled.
C12_FlagStyling ==
    \A k \in 0..(spos - 1) :
       LET w == tokens[k + 1].value
           eq == {i \in 1..Len(w) : SubSeq(w, i, i) = "="}
           first == CHOOSE i \in eq : \A j \in eq : i <= j
       IN  (tokens[k + 1].tokenType = tokenWord /\ ~commandStyled(k))
              => IF SubSeq(w, 1, 1) = "-"
                 THEN IF eq # {}
                      THEN piecesOf(k) =
                              <<piece("Flag", SubSeq(w, 1, first), k),
                                piece("", SubSeq(w, first + 1, Len(w)), k)>>
                      ELSE piecesOf(k) = <<piece("Flag", w, k)>>
                 ELSE piecesOf(k) = <<piece("", w, k)>>

\* a line on which a flag with a value has been written after the command
C12_Witness ==
    /\ spos = Len(tokens)
    /\ \E k \in 1..(spos - 1) :
          /\ tokens[k + 1] = exampleToken("--f=v", tokenWord)
          /\ piecesOf(k) = <<piece("Flag", "--f=", k), piece("", "v", k)>>


----------------------------------------------------------------------------
(* unfill and wrapText *)

\* strings.HasSuffix, strings.TrimSuffix, strings.TrimPrefix
HasSuffix(s, suffix) ==
    Len(s) >= Len(suffix) /\ SubSeq(s, Len(s) - Len(suffix) + 1, Len(s)) = suffix

TrimSuffix(s, suffix) ==
    IF HasSuffix(s, suffix) THEN SubSeq(s, 1, Len(s) - Len(suffix)) ELSE s

TrimPrefix(s, prefix) ==
    IF HasPrefix(s, prefix) THEN SubSeq(s, Len(prefix) + 1, Len(s)) ELSE s

RECURSIVE ReplaceAll(_, _, _)
\* strings.ReplaceAll: the non-overlapping occurrences, from the left
ReplaceAll(s, old, new) ==
    IF Len(s) < Len(old) THEN s
    ELSE IF HasPrefix(s, old)
    THEN new \o ReplaceAll(SubSeq(s, Len(old) + 1, Len(s)), old, new)
    ELSE SubSeq(s, 1, 1) \o ReplaceAll(SubSeq(s, 2, Len(s)), old, new)

RECURSIVE Split(_, _)
\* strings.Split with a non-empty separator
Split(s, sep) ==
    LET hits == {k \in 0..(Len(s) - Len(sep)) : Slice(s, k, k + Len(sep)) = sep}
        k == CHOOSE h \in hits : \A other \in hits : h <= other
    IN  IF hits = {} THEN <<s>>
        ELSE <<Slice(s, 0, k)>> \o Split(Slice(s, k + Len(sep), Len(s)), sep)

\* unicode.IsSpace, over the runes of the model
isSpace(r) == r \in {" ", "\t", "\n", "\r"}

RECURSIVE TrimSpace(_)
\* strings.TrimSpace
TrimSpace(s) ==
    IF s = "" THEN s
    ELSE IF isSpace(SubSeq(s, 1, 1)) THEN TrimSpace(SubSeq(s, 2, Len(s)))
    ELSE IF isSpace(SubSeq(s, Len(s), Len(s)))
    THEN TrimSpace(SubSeq(s, 1, Len(s) - 1))
    ELSE s

RECURSIVE collapseSpaces(_)
\* for strings.Contains(para, "  ") { para = ReplaceAll(para, "  ", " ") }
collapseSpaces(para) ==
    IF Contains(para, "  ")
    THEN collapseSpaces(ReplaceAll(para, "  ", " "))
    ELSE para

\* the body of the loop over the paragraphs
unfillParagraph(para) == TrimSpace(collapseSpaces(ReplaceAll(para, "\n", " ")))

\* unfill
unfill(str) ==
    LET s1 == ReplaceAll(str, "\r\n", "\n")
        hasTrailingNewline == HasSuffix(s1, "\n")
        s2 == TrimSuffix(s1, "\n")
        split == Split(s2, "\n\n")
        paragraphs == [i \in 1..Len(split) |-> unfillParagraph(split[i])]
        s3 == Join(paragraphs, "\n\n")
    IN  IF hasTrailingNewline /\ s3 # "" THEN s3 \o "\n" ELSE s3

\* wordwrap.WordWrap of github.com/muesli/reflow: the output buffer, the
\* pending spaces, the pending word and the length of the current line
wordWrapNew == [buf |-> "", space |-> "", word |-> "", lineLen |-> 0]

addSpace(w) ==
    [w EXCEPT !.lineLen = @ + Len(w.space), !.buf = @ \o w.space, !.space = ""]

addWord(w) ==
    IF Len(w.word) > 0
    THEN LET a == addSpace(w)
         IN  [a EXCEPT !.lineLen = @ + Len(a.word), !.buf = @ \o a.word,
                       !.word = ""]
    ELSE w

addNewLine(w) == [w EXCEPT !.buf = @ \o "\n", !.lineLen = 0, !.space = ""]

\* WordWrap.Write, for one rune c
wordWrapWrite(w, c, limit) ==
    IF c = "\n"
    THEN LET kept == IF Len(w.word) = 0
                     THEN IF w.lineLen + Len(w.space) > limit
                          THEN [w EXCEPT !.lineLen = 0, !.space = ""]
                          ELSE [w EXCEPT !.buf = @ \o w.space, !.space = ""]
                     ELSE w
         IN  addNewLine(addWord(kept))
    ELSE IF isSpace(c)
    THEN LET a == addWord(w) IN [a EXCEPT !.space = @ \o c]
    ELSE IF c = "-"
    THEN LET a == addWord(addSpace(w)) IN [a EXCEPT !.buf = @ \o c]
    ELSE LET a == [w EXCEPT !.word = @ \o c]
         IN  IF a.lineLen + Len(a.space) + Len(a.word) > limit
                /\ Len(a.word) < limit
             THEN addNewLine(a)
             ELSE a

RECURSIVE wordWrapFrom(_, _, _, _)
wordWrapFrom(w, s, k, limit) ==
    IF k < Len(s)
    THEN wordWrapFrom(wordWrapWrite(w, Rune(s, k), limit), s, k + 1, limit)
    ELSE addWord(w).buf

\* wordwrap.String
wordwrapString(s, limit) ==
    IF limit = 0 THEN s ELSE wordWrapFrom(wordWrapNew, s, 0, limit)

\* wrapText as it would be if the text were reflowed whatever the width
wrapTextReflowingFirst(s, width) ==
    IF width <= 0 THEN unfill(s) ELSE wordwrapString(unfill(s), width)

\* wrapText
wrapText(s, width) ==
    IF width <= 0 THEN s ELSE wordwrapString(unfill(s), width)

\* a call of unfill, on the text or on what the call before returned
callUnfill ==
    /\ textOp \in {<<>>, <<"unfill">>}
    /\ textOut' = unfill(IF textOp = <<>> THEN text ELSE textOut)
    /\ textOp' = Append(textOp, "unfill")
    /\ UNCHANGED <<text, textWidth>>
    /\ UNCHANGED <<tokVars, enumVars, cliVars, moreVars, styleVars, groupVars, usageVars>>

\* a call of wrapText on the text
callWrapText(width) ==
    /\ textOp = <<>>
    /\ textOut' = wrapText(text, width)
    /\ textWidth' = width
    /\ textOp' = <<"wrapText">>
    /\ UNCHANGED text
    /\ UNCHANGED <<tokVars, enumVars, cliVars, moreVars, styleVars, groupVars, usageVars>>

\* the texts and widths given to unfill and wrapText
TextAlphabet == {"a", " ", "\n", "\r"}

TestTexts == {"aa a-a\n", "a\r\n\r\na a"}

Widths == {-1, 0, 1, 4, 80}

TextInit ==
    /\ text \in StringsUpTo(TextAlphabet, MaxTextLen) \cup TestTexts
    /\ textWidth = 0
    /\ textOut = ""
    /\ textOp = <<>>
    /\ TokIdle
    /\ EnumIdle
    /\ CliIdle
    /\ StyleIdle
    /\ GroupIdle
    /\ UsageIdle
    /\ MoreIdle

TextNext ==
    \/ callUnfill
    \/ \E width \in Widths : callWrapText(width)

SpecText == TextInit /\ [][TextNext]_vars

----------------------------------------------------------------------------
(* Properties of unfill and wrapText *)

\* C18: reflowing is idempotent: unfill applied to what unfill returned
\* returns it unchanged, so two calls return what one call returns.
C18_UnfillIdempotent ==
    textOp = <<"unfill", "unfill">> => textOut = unfill(text)

\* the number of newlines that end s
RECURSIVE trailingNewlines(_)
trailingNewlines(s) ==
    IF s # "" /\ SubSeq(s, Len(s), Len(s)) = "\n"
    THEN 1 + trailingNewlines(SubSeq(s, 1, Len(s) - 1))
    ELSE 0

\* C19: what unfill returns ends with a newline if and only if the text
\* given ends with one and the reflowed text is not empty, and then with
\* exactly one; between paragraph breaks no line break, no run of spaces
\* and no space at either end of a paragraph is left.
C19_SingleTrailingNewline ==
    textOp = <<"unfill">> =>
       LET endsWithNewline == text # "" /\ SubSeq(text, Len(text), Len(text)) = "\n"
           n == trailingNewlines(textOut)
           reflowed == SubSeq(textOut, 1, Len(textOut) - n)
           paras == Split(reflowed, "\n\n")
       IN  /\ (n > 0) <=> (endsWithNewline /\ reflowed # "")
           /\ n <= 1
           /\ \A i \in 1..Len(paras) :
                 /\ ~Contains(paras[i], "  ")
                 /\ \A k \in 1..Len(paras[i]) :
                       SubSeq(paras[i], k, k) = "\n"
                          => k = 1 /\ i > 1 /\ paras[i - 1] = ""
                 /\ paras[i] = "" \/ (SubSeq(paras[i], 1, 1) # " "
                                      /\ SubSeq(paras[i], Len(paras[i]),
                                                Len(paras[i])) # " ")

\* C20 as stated: with a width of 0 or less wrapText returns the reflowed
\* text, unfill(T).
C20_NoWidthReturnsReflowed ==
    (textOp = <<"wrapText">> /\ textWidth <= 0) => textOut = unfill(text)

\* C20: with a width of 0 or less wrapText does not wrap and does not
\* reflow: it returns the text it was given.
C20_NoWidthReturnsText ==
    (textOp = <<"wrapText">> /\ textWidth <= 0) => textOut = text

\* wrapText has returned, for a width of 0 or less, a text that unfill
\* would have changed
C20_Witness ==
    /\ textOp = <<"wrapText">>
    /\ textWidth <= 0
    /\ textOut = "a\n a"
    /\ unfill(text) = "a a"


----------------------------------------------------------------------------
(* formatUsage (help.go) *)

\* lipgloss Style.Render: the text, wrapped in the marks of the style
Render(style, str) == "{" \o style \o ":" \o str \o "}"

\* a command: the path of its parent ("" for a root command), its Use
\* string, Hidden of each flag of Flags(), DisableFlagsInUseLine, and Hidden
\* of each subcommand
command(parent, use, flags, disableFlags, subs) ==
    [parent |-> parent, use |-> use, flags |-> flags,
     disableFlagsInUseLine |-> disableFlags, subs |-> subs]

\* cobra Command.Name: the Use string up to its first space
Name(cmd) ==
    LET i == Index(cmd.use, " ")
    IN  IF i >= 0 THEN Slice(cmd.use, 0, i) ELSE cmd.use

\* cobra Command.CommandPath
CommandPath(cmd) ==
    IF cmd.parent # "" THEN cmd.parent \o " " \o Name(cmd) ELSE Name(cmd)

\* HasAvailableFlags as it would be if hidden flags counted
HasAvailableFlagsCountingHidden(cmd) == Len(cmd.flags) > 0

\* cobra Command.HasAvailableFlags: some flag is not hidden
HasAvailableFlags(cmd) == \E k \in 1..Len(cmd.flags) : ~cmd.flags[k]

\* extractArgs: parts := strings.SplitN(use, " ", 2)
extractArgs(use) ==
    LET i == Index(use, " ")
    IN  IF i >= 0 THEN Slice(use, i + 1, Len(use)) ELSE ""

\* hasSubCommands
hasSubCommands(cmd) == \E k \in 1..Len(cmd.subs) : ~cmd.subs[k]

\* formatUsage
formatUsage(cmd) ==
    LET path == <<Render("Command", CommandPath(cmd))>>
        flagsMarker == IF HasAvailableFlags(cmd) /\ ~cmd.disableFlagsInUseLine
                       THEN <<Render("FlagType", "[FLAGS]")>>
                       ELSE <<>>
        positional == IF extractArgs(cmd.use) # ""
                      THEN <<Render("FlagType", extractArgs(cmd.use))>>
                      ELSE <<>>
        commandMarker == IF hasSubCommands(cmd)
                         THEN <<Render("FlagType", "[COMMAND]")>>
                         ELSE <<>>
    IN  Join(path \o flagsMarker \o positional \o commandMarker, " ")

\* a call of formatUsage on the command
callFormatUsage ==
    /\ usageLine = NotRendered
    /\ usageLine' = formatUsage(usageCmd)
    /\ UNCHANGED usageCmd
    /\ UNCHANGED <<tokVars, enumVars, cliVars, moreVars, styleVars, groupVars, textVars>>

\* the commands given to formatUsage
UseStrings ==
    {"myapp", "myapp <file>", "myapp <source> [destination]", "build [flags]",
     "myapp "}

UsageInit ==
    /\ \E parent \in {"", "demo"} :
       \E use \in UseStrings :
       \E flags \in SeqsUpTo(BOOLEAN, MaxUsageFlags) :
       \E disableFlags \in BOOLEAN :
       \E subs \in SeqsUpTo(BOOLEAN, MaxSubCommands) :
          usageCmd = command(parent, use, flags, disableFlags, subs)
    /\ usageLine = NotRendered
    /\ TokIdle
    /\ EnumIdle
    /\ CliIdle
    /\ StyleIdle
    /\ GroupIdle
    /\ TextIdle
    /\ MoreIdle

UsageNext == callFormatUsage

SpecUsage == UsageInit /\ [][UsageNext]_vars

----------------------------------------------------------------------------
(* Properties of formatUsage *)

\* the indices of the spaces of the Use string
useSpaces == {k \in 1..Len(usageCmd.use) : SubSeq(usageCmd.use, k, k) = " "}

firstSpace == CHOOSE k \in useSpaces : \A other \in useSpaces : k <= other

\* the text of the Use string before and after its first space
useName ==
    IF useSpaces = {} THEN usageCmd.use
    ELSE SubSeq(usageCmd.use, 1, firstSpace - 1)

usePlaceholder ==
    IF useSpaces = {} THEN ""
    ELSE SubSeq(usageCmd.use, firstSpace + 1, Len(usageCmd.use))

\* the line made of the command path and of the parts that are present
usageOf(withFlags, withCommand) ==
    Render("Command", IF usageCmd.parent = "" THEN useName
                      ELSE usageCmd.parent \o " " \o useName)
       \o (IF withFlags THEN " " \o Render("FlagType", "[FLAGS]") ELSE "")
       \o (IF usePlaceholder # ""
           THEN " " \o Render("FlagType", usePlaceholder) ELSE "")
       \o (IF withCommand THEN " " \o Render("FlagType", "[COMMAND]") ELSE "")

visibleSubCommand == \E k \in 1..Len(usageCmd.subs) : ~usageCmd.subs[k]

\* C17 as stated: the usage line is the command path, [FLAGS] unless the
\* command declares no flags or DisableFlagsInUseLine is set, the text of
\* Use after its first space when it is not empty, and [COMMAND] if and
\* only if a subcommand is not hidden.
C17_FlagsMarkerForDeclaredFlags ==
    usageLine # NotRendered =>
       usageLine = usageOf(~(Len(usageCmd.flags) = 0
                             \/ usageCmd.disableFlagsInUseLine),
                           visibleSubCommand)

\* C17: the usage line is the command path, [FLAGS] if and only if some
\* flag of the command is not hidden and DisableFlagsInUseLine is not set,
\* the text of Use after its first space when it is not empty, and
\* [COMMAND] if and only if a subcommand is not hidden.
C17_FlagsMarkerForAvailableFlags ==
    usageLine # NotRendered =>
       usageLine = usageOf((\E k \in 1..Len(usageCmd.flags) : ~usageCmd.flags[k])
                              /\ ~usageCmd.disableFlagsInUseLine,
                           visibleSubCommand)

\* the usage line of a subcommand that has a placeholder, only hidden
\* flags and only hidden subcommands: the path and the placeholder
C17_Witness ==
    /\ usageCmd = command("demo", "myapp <file>", <<TRUE>>, FALSE, <<TRUE>>)
    /\ usageLine = "{Command:demo myapp} {FlagType:<file>}"


----------------------------------------------------------------------------
(* FlagGroup (cli.go), collectFlagGroups, renderGroupedFlags and           *)
(* renderFlagList (help.go)                                                *)

\* Shorthand and Usage of each flag
FlagShorthand == [check |-> "c", key |-> "", port |-> "", tags |-> ""]

FlagUsage ==
    [check |-> "check for drift", key |-> "test flag", port |-> "test flag",
     tags |-> "tags to apply"]

RECURSIVE ToUpper(_)
\* strings.ToUpper
ToUpper(s) ==
    IF s = "" THEN ""
    ELSE LET c == Rune(s, 0)
             l == Index(Lower, c)
         IN  (IF l >= 0 THEN Rune(Upper, l) ELSE c) \o ToUpper(Slice(s, 1, Len(s)))

\* FlagGroup: the annotation of each named flag that Lookup finds is set to
\* the group; groupsDefined and reassigned record the calls made
FlagGroup(group, flagNames) ==
    /\ ~printed
    /\ groupAnnotation' =
          [f \in FlagSet |->
              IF \E k \in 1..Len(flagNames) : flagNames[k] = f
              THEN <<group>>
              ELSE groupAnnotation[f]]
    /\ groupsDefined' =
          IF \E k \in 1..Len(groupsDefined) : groupsDefined[k] = group
          THEN groupsDefined
          ELSE Append(groupsDefined, group)
    /\ reassigned' =
          (reassigned
             \/ \E k \in 1..Len(flagNames) :
                   /\ flagNames[k] \in FlagSet
                   /\ groupAnnotation[flagNames[k]] \notin {<<>>, <<group>>})
    /\ UNCHANGED <<flagHidden, flagDefValue, helpWidth, sections, printed>>
    /\ UNCHANGED <<tokVars, enumVars, cliVars, moreVars, styleVars, usageVars, textVars>>

\* pflag FlagSet.MarkHidden
MarkHidden(flag) ==
    /\ ~printed
    /\ ~flagHidden[flag]
    /\ flagHidden' = [flagHidden EXCEPT ![flag] = TRUE]
    /\ UNCHANGED <<groupAnnotation, groupsDefined, reassigned, flagDefValue,
                   helpWidth, sections, printed>>
    /\ UNCHANGED <<tokVars, enumVars, cliVars, moreVars, styleVars, usageVars, textVars>>

\* visibleFlags as it would be if hidden flags were not skipped
visibleFlagsWithHidden == FlagNames

\* the flags that the callback given to VisitAll does not return on
visibleFlags == SelectSeq(FlagNames, LAMBDA f : ~flagHidden[f])

\* whether the flag has a group annotation with an element
grouped(f) == Len(groupAnnotation[f]) > 0

RECURSIVE groupOrderFrom(_, _)
\* groupOrder after visiting flags[k..]: each group, when first seen
groupOrderFrom(flags, order) ==
    IF flags = <<>> THEN order
    ELSE LET f == Head(flags)
             group == groupAnnotation[f][1]
         IN  IF grouped(f) /\ ~\E k \in 1..Len(order) : order[k] = group
             THEN groupOrderFrom(Tail(flags), Append(order, group))
             ELSE groupOrderFrom(Tail(flags), order)

\* collectFlagGroups
collectFlagGroups ==
    LET groupOrder == groupOrderFrom(visibleFlags, <<>>)
    IN  [ungrouped |-> SelectSeq(visibleFlags, LAMBDA f : ~grouped(f)),
         groups |-> [k \in 1..Len(groupOrder) |->
                        [name |-> groupOrder[k],
                         flags |-> SelectSeq(visibleFlags,
                                      LAMBDA f : grouped(f)
                                         /\ groupAnnotation[f][1] = groupOrder[k])]]]

\* flagTypeName
flagTypeName(t) ==
    IF t \in {"stringSlice", "stringArray"} THEN "strings"
    ELSE IF t \in {"intSlice", "int32Slice", "int64Slice"} THEN "ints"
    ELSE IF t = "uintSlice" THEN "uints"
    ELSE IF t \in {"float32", "float64"} THEN "float"
    ELSE IF t \in {"float32Slice", "float64Slice"} THEN "floats"
    ELSE IF t = "boolSlice" THEN "bools"
    ELSE IF t = "durationSlice" THEN "durations"
    ELSE IF t = "ipSlice" THEN "ips"
    ELSE IF t = "ipNetSlice" THEN "cidrs"
    ELSE t

\* formatDefaultValue, with theme.FlagDefault as the style
formatDefaultValue(val, valueType) ==
    LET trimmed == TrimPrefix(TrimSuffix(val, "]"), "[")
        parts == Split(trimmed, ",")
    IN  IF valueType = "string"
        THEN "\"" \o Render("FlagDefault", val) \o "\""
        ELSE IF valueType \in {"stringSlice", "stringArray", "durationSlice",
                               "ipSlice", "ipNetSlice"}
        THEN IF trimmed = "" THEN ""
             ELSE Join([k \in 1..Len(parts) |->
                          "\"" \o Render("FlagDefault", parts[k]) \o "\""], ", ")
        ELSE IF valueType \in {"intSlice", "int32Slice", "int64Slice",
                               "uintSlice", "float32Slice", "float64Slice",
                               "boolSlice"}
        THEN IF trimmed = "" THEN ""
             ELSE Join([k \in 1..Len(parts) |->
                          Render("FlagDefault", parts[k])], ", ")
        ELSE Render("FlagDefault", val)

\* formatEnvVar as it would be if the value were never cut
formatEnvVarInFull(envVar) ==
    LET val == Getenv(environ, envVar)
    IN  IF val = ""
        THEN "[env: " \o Render("EnvVar", envVar) \o "]"
        ELSE "[env: " \o Render("EnvVar", envVar) \o "="
                \o Render("EnvVarValue", val) \o "]"

\* formatEnvVar: len(val) and val[:20] count bytes
formatEnvVar(envVar) ==
    LET val == Getenv(environ, envVar)
        shown == IF Len(val) > 20 THEN Slice(val, 0, 20) \o "..." ELSE val
    IN  IF val = ""
        THEN "[env: " \o Render("EnvVar", envVar) \o "]"
        ELSE "[env: " \o Render("EnvVar", envVar) \o "="
                \o Render("EnvVarValue", shown) \o "]"

\* the line of renderFlagList that names the flag
flagLine(f) ==
    LET named == IF FlagShorthand[f] # ""
                 THEN "-" \o FlagShorthand[f] \o ", --" \o f
                 ELSE "    --" \o f
        typed == IF FlagKind[f] # "bool"
                 THEN named \o " "
                         \o Render("FlagType", "<" \o flagTypeName(FlagKind[f]) \o ">")
                 ELSE named
        hinted == IF GetEnvVar(f) # ""
                  THEN typed \o "  " \o formatEnvVar(GetEnvVar(f))
                  ELSE typed
    IN  Render("Flag", hinted)

\* hasDefault as it would be if every default were annotated
hasDefaultAlways(f) == TRUE

\* hasDefault := f.DefValue != "" && != "false" && != "0" && != "[]"
hasDefault(f) == flagDefValue[f] \notin {"", "false", "0", "[]"}

\* the usage lines of renderFlagList, the default value after the last one
usageLines(f, width) ==
    LET descWidth == IF width - 10 <= 0 \/ width = 0 THEN 0 ELSE width - 10
        lines == Split(wrapText(FlagUsage[f], descWidth), "\n")
    IN  [j \in 1..Len(lines) |->
            Render("Description",
                   IF j = Len(lines) /\ hasDefault(f)
                   THEN lines[j] \o " (default: "
                           \o formatDefaultValue(flagDefValue[f], FlagKind[f])
                           \o ")"
                   ELSE lines[j])]

\* renderFlagList: for each flag its name, its first line and its usage lines
renderFlagList(flags, width) ==
    [i \in 1..Len(flags) |->
        [name |-> flags[i], line |-> flagLine(flags[i]),
         usage |-> usageLines(flags[i], width)]]

\* renderGroupedFlags: the sections written, each a header and a flag list
renderGroupedFlags(defaultHeader, width) ==
    LET collected == collectFlagGroups
    IN  (IF Len(collected.ungrouped) > 0
         THEN <<[header |-> Render("Header", defaultHeader),
                 flags |-> renderFlagList(collected.ungrouped, width)]>>
         ELSE <<>>)
        \o [k \in 1..Len(collected.groups) |->
               [header |-> Render("Header", ToUpper(collected.groups[k].name)),
                flags |-> renderFlagList(collected.groups[k].flags, width)]]

\* renderHelp writing the flags of the command
callRenderGroupedFlags ==
    /\ ~printed
    /\ sections' = renderGroupedFlags("FLAGS", helpWidth)
    /\ printed' = TRUE
    /\ UNCHANGED <<flagHidden, groupAnnotation, groupsDefined, reassigned,
                   flagDefValue, helpWidth>>
    /\ UNCHANGED <<tokVars, enumVars, cliVars, moreVars, styleVars, usageVars, textVars>>

\* the groups and the flag names given to FlagGroup
GroupNames == {"Output Options", "Authentication"}

GroupInit ==
    /\ GroupIdle
    /\ TokIdle
    /\ EnumIdle
    /\ CliIdle
    /\ StyleIdle
    /\ UsageIdle
    /\ TextIdle
    /\ MoreIdle

GroupNext ==
    \/ \E group \in GroupNames :
       \E flagNames \in SeqsUpTo(FlagSet \cup {"missing"}, MaxGroupFlags) :
          FlagGroup(group, flagNames)
    \/ \E flag \in FlagSet : MarkHidden(flag)
    \/ callRenderGroupedFlags

SpecGroups == GroupInit /\ [][GroupNext]_vars

\* the defaults a flag of each type is declared with, and the widths
DefaultsOf(kind) ==
    IF kind = "bool" THEN {"false", "true"}
    ELSE IF kind = "string" THEN {"", "info", "0", "false", "[]"}
    ELSE IF kind = "int" THEN {"0", "8080"}
    ELSE {"[]", "[a,b]"}

HelpWidths == {0, 20, 80}

DefaultsInit ==
    /\ flagDefValue \in
          {d \in [FlagSet -> UNION {DefaultsOf(FlagKind[f]) : f \in FlagSet}] :
              \A f \in FlagSet : d[f] \in DefaultsOf(FlagKind[f])}
    /\ helpWidth \in HelpWidths
    /\ flagHidden = [f \in FlagSet |-> FALSE]
    /\ groupAnnotation = [f \in FlagSet |-> <<>>]
    /\ groupsDefined = <<>>
    /\ reassigned = FALSE
    /\ sections = <<>>
    /\ printed = FALSE
    /\ TokIdle
    /\ EnumIdle
    /\ CliIdle
    /\ StyleIdle
    /\ UsageIdle
    /\ TextIdle
    /\ MoreIdle

DefaultsNext ==
    \/ \E flag \in FlagSet : MarkHidden(flag)
    \/ callRenderGroupedFlags

SpecDefaults == DefaultsInit /\ [][DefaultsNext]_vars

\* the values put in the environment before the help is rendered; the two
\* bytes of a rune that UTF-8 encodes in two bytes are written ^ and ~
HintValues ==
    {"", "v1.2.3", "chore: this is a rel",
     "chore: this is a release created by nsv",
     "^~^~^~^~^~^~^~^~^~^~^~", "chore: this is a r^~"}

HintNext ==
    \/ \E flag \in FlagSet : \E envVar \in EnvVars :
          /\ ~printed
          /\ BindEnv(flag, envVar)
          /\ UNCHANGED <<tokVars, enumVars, helpVars>>
    \/ \E k \in EnvVars : \E v \in HintValues :
          /\ ~printed
          /\ Setenv(k, v)
          /\ UNCHANGED <<tokVars, enumVars, helpVars>>
    \/ \E k \in EnvVars :
          /\ ~printed
          /\ Unsetenv(k)
          /\ UNCHANGED <<tokVars, enumVars, helpVars>>
    \/ callRenderGroupedFlags

SpecEnvHint == GroupInit /\ [][HintNext]_vars


----------------------------------------------------------------------------
(* Properties of the rendering of the flags *)

\* the flags written, in the order written
writtenFlags ==
    LET RECURSIVE flat(_)
        flat(k) == IF k > Len(sections) THEN <<>>
                   ELSE sections[k].flags \o flat(k + 1)
    IN  flat(1)

\* the header of the section of a group: its name in upper case
headerOf(group) ==
    IF group = "Output Options" THEN "{Header:OUTPUT OPTIONS}"
    ELSE IF group = "Authentication" THEN "{Header:AUTHENTICATION}"
    ELSE "{Header:}"

\* where the section with the header is, 0 if there is none
sectionOf(header) ==
    LET at == {k \in 1..Len(sections) : sections[k].header = header}
    IN  IF at = {} THEN 0 ELSE CHOOSE k \in at : TRUE

\* a flag that is not hidden carries the group
namesVisibleFlag(group) ==
    \E f \in FlagSet : ~flagHidden[f] /\ groupAnnotation[f] = <<group>>

\* C13: when no flag was moved from one group to another, the section of a
\* group that was defined first and has a visible flag is written before
\* the section of a group that was defined later and has a visible flag.
C13_GroupsInDefinitionOrder ==
    (printed /\ ~reassigned) =>
       \A i, j \in 1..Len(groupsDefined) :
          (i < j /\ namesVisibleFlag(groupsDefined[i])
                 /\ namesVisibleFlag(groupsDefined[j]))
             => /\ sectionOf(headerOf(groupsDefined[i])) > 0
                /\ sectionOf(headerOf(groupsDefined[i]))
                      < sectionOf(headerOf(groupsDefined[j]))

\* the position of a flag in the order in which VisitAll visits the flags
visitIndex(f) == CHOOSE k \in 1..Len(FlagNames) : FlagNames[k] = f

shown == {f \in FlagSet : ~flagHidden[f]}

shownIn(group) == {f \in shown : groupAnnotation[f] = <<group>>}

shownGroups == {g \in GroupNames : shownIn(g) # {}}

shownUngrouped == {f \in shown : groupAnnotation[f] = <<>>}

firstVisit(F) == CHOOSE k \in {visitIndex(f) : f \in F} :
                    \A f \in F : k <= visitIndex(f)

\* the section holds exactly the flags of F, in the order of their visit
holds(section, F) ==
    /\ {section.flags[k].name : k \in 1..Len(section.flags)} = F
    /\ Len(section.flags) = Cardinality(F)
    /\ \A a, b \in 1..Len(section.flags) :
          a < b => visitIndex(section.flags[a].name)
                      < visitIndex(section.flags[b].name)

\* C14: the sections written partition the flags that are not hidden: the
\* default section comes first, exists only when a visible flag has no
\* group and holds those flags; then comes one section for each group that
\* has a visible flag, headed by its upper-cased name, in the order in
\* which the groups are first met while visiting the flags; inside a
\* section the flags are in the order of the visit, and a hidden flag is
\* in no section.
C14_SectionsPartitionFlags ==
    printed =>
       LET offset == IF shownUngrouped = {} THEN 0 ELSE 1
           rank(g) == Cardinality({h \in shownGroups :
                                      firstVisit(shownIn(h)) < firstVisit(shownIn(g))})
       IN  /\ Len(sections) = offset + Cardinality(shownGroups)
           /\ shownUngrouped # {} =>
                 /\ sections[1].header = "{Header:FLAGS}"
                 /\ holds(sections[1], shownUngrouped)
           /\ \A g \in shownGroups :
                 /\ sections[offset + rank(g) + 1].header = headerOf(g)
                 /\ holds(sections[offset + rank(g) + 1], shownIn(g))
           /\ \A k \in 1..Len(writtenFlags) : ~flagHidden[writtenFlags[k].name]
           /\ \A f \in shown :
                 Cardinality({k \in 1..Len(writtenFlags) :
                                 writtenFlags[k].name = f}) = 1

\* a default section and the sections of two groups have been written, the
\* group met second having been defined first, and a hidden flag left out
C14_Witness ==
    /\ printed
    /\ Len(sections) = 3
    /\ \E f \in FlagSet : flagHidden[f] /\ groupAnnotation[f] # <<>>
    /\ sections[2].header = headerOf(groupsDefined[2])
    /\ sections[3].header = headerOf(groupsDefined[1])

\* the default of the flag is boolean false, the integer zero, an empty
\* collection or the empty text
zeroDefault(f) ==
    \/ FlagKind[f] = "bool" /\ flagDefValue[f] = "false"
    \/ FlagKind[f] = "int" /\ flagDefValue[f] = "0"
    \/ FlagKind[f] = "stringSlice" /\ flagDefValue[f] = "[]"
    \/ FlagKind[f] = "string" /\ flagDefValue[f] = ""

\* C15: the last usage line of a flag that is written ends with a default
\* annotation exactly when the default of the flag is not boolean false,
\* not the integer zero, not an empty collection and not the empty text;
\* a text default is shown between quotes.
C15_DefaultAnnotation ==
    \A k \in 1..Len(writtenFlags) :
       LET f == writtenFlags[k].name
           usage == writtenFlags[k].usage
           last == usage[Len(usage)]
       IN  /\ Contains(last, " (default: ") <=> ~zeroDefault(f)
           /\ \A j \in 1..(Len(usage) - 1) : ~Contains(usage[j], " (default: ")
           /\ (FlagKind[f] = "string" /\ ~zeroDefault(f))
                 => HasSuffix(last, " (default: \"{FlagDefault:"
                                       \o flagDefValue[f] \o "}\")}")

\* the number of characters of a text: its bytes, but for the bytes that
\* continue a rune
characters(str) == Cardinality({k \in 1..Len(str) : SubSeq(str, k, k) # "~"})

\* the first n characters of a text
firstCharacters(str, n) ==
    LET whole == {k \in 0..Len(str) :
                     /\ characters(SubSeq(str, 1, k)) <= n
                     /\ (k < Len(str) => SubSeq(str, k + 1, k + 1) # "~")}
    IN  SubSeq(str, 1, CHOOSE k \in whole : \A other \in whole : other <= k)

\* C16: the first line of a flag bound to a variable ends with a hint that
\* names the variable; the hint also shows the value of the variable if and
\* only if the variable is set (to a text that is not empty), in full when
\* the value has at most 20 characters and else cut to its first 20
\* characters followed by "...".
C16_EnvironmentHint ==
    \A k \in 1..Len(writtenFlags) :
       LET f == writtenFlags[k].name
           var == envAnnotation[f][1]
           val == environ[var]
           cut == IF characters(val) <= 20 THEN val
                  ELSE firstCharacters(val, 20) \o "..."
       IN  envAnnotation[f] # <<>> =>
              IF val \in {Unset, ""}
              THEN HasSuffix(writtenFlags[k].line,
                             "  [env: {EnvVar:" \o var \o "}]}")
              ELSE HasSuffix(writtenFlags[k].line,
                             "  [env: {EnvVar:" \o var \o "}={EnvVarValue:"
                                \o cut \o "}]}")

----------------------------------------------------------------------------
(* dedent *)

RECURSIVE TrimLeft(_, _)
\* strings.TrimLeft(s, cutset), the cutset a set of runes
TrimLeft(s, cutset) ==
    IF s # "" /\ SubSeq(s, 1, 1) \in cutset
    THEN TrimLeft(SubSeq(s, 2, Len(s)), cutset)
    ELSE s

\* math.MaxInt as on a 32-bit build (2^31 - 1), the value minIndent has
\* while no non-blank line was seen; no line is that long
MaxInt == 2147483647

\* indent := len(line) - len(strings.TrimLeft(line, " \t"))
indentOf(ln) == Len(ln) - Len(TrimLeft(ln, {" ", "\t"}))

RECURSIVE minIndentFrom(_, _, _)
\* the first loop of dedent, from line k on
minIndentFrom(lines, k, minIndent) ==
    IF k > Len(lines) THEN minIndent
    ELSE IF Len(TrimSpace(lines[k])) = 0
    THEN minIndentFrom(lines, k + 1, minIndent)
    ELSE minIndentFrom(lines, k + 1,
                       IF indentOf(lines[k]) < minIndent
                       THEN indentOf(lines[k]) ELSE minIndent)

\* dedent
dedent(s) ==
    LET lines == Split(s, "\n")
        minIndent == minIndentFrom(lines, 1, MaxInt)
        cut == [i \in 1..Len(lines) |->
                   IF Len(lines[i]) >= minIndent
                   THEN Slice(lines[i], minIndent, Len(lines[i]))
                   ELSE lines[i]]
    IN  IF minIndent = MaxInt THEN s ELSE TrimSpace(Join(cut, "\n"))

\* a call of dedent on the text
callDedent ==
    /\ textOp = <<>>
    /\ textOut' = dedent(text)
    /\ textOp' = <<"dedent">>
    /\ UNCHANGED <<text, textWidth>>
    /\ UNCHANGED <<tokVars, enumVars, cliVars, moreVars, styleVars, groupVars, usageVars>>

\* the texts given to dedent
DedentAlphabet == {"a", " ", "\t", "\n"}

DedentInit ==
    /\ text \in StringsUpTo(DedentAlphabet, MaxTextLen)
    /\ textWidth = 0
    /\ textOut = ""
    /\ textOp = <<>>
    /\ TokIdle
    /\ EnumIdle
    /\ CliIdle
    /\ StyleIdle
    /\ GroupIdle
    /\ UsageIdle
    /\ MoreIdle

DedentNext == callDedent

SpecDedent == DedentInit /\ [][DedentNext]_vars

----------------------------------------------------------------------------
(* Properties of dedent *)

\* the lines of the text given
textLines == Split(text, "\n")

\* the number of spaces and tabs line i starts with
leading(i) ==
    LET ln == textLines[i]
        others == {k \in 1..Len(ln) : SubSeq(ln, k, k) \notin {" ", "\t"}}
    IN  IF others = {} THEN Len(ln)
        ELSE (CHOOSE k \in others : \A o \in others : k <= o) - 1

\* the lines that hold something other than spaces and tabs
nonBlank == {i \in 1..Len(textLines) : leading(i) < Len(textLines[i])}

\* the least indentation of a non-blank line
leastIndent == CHOOSE m \in {leading(i) : i \in nonBlank} :
                  \A i \in nonBlank : m <= leading(i)

\* line i without its first leastIndent characters, or as it is when shorter
cutLine(i) ==
    IF Len(textLines[i]) >= leastIndent
    THEN SubSeq(textLines[i], leastIndent + 1, Len(textLines[i]))
    ELSE textLines[i]

\* C21: dedent removes from every line the least indentation of the
\* non-blank lines (a shorter line is left as it is), so every non-blank
\* line keeps its indentation relative to the least-indented one, and then
\* drops only the blank lines before the first and after the last non-blank
\* line; a text whose lines are all blank is returned unchanged.
C21_DedentKeepsRelativeIndentation ==
    textOp = <<"dedent">> =>
       IF nonBlank = {} THEN textOut = text
       ELSE LET first == CHOOSE i \in nonBlank : \A j \in nonBlank : i <= j
                last == CHOOSE i \in nonBlank : \A j \in nonBlank : i >= j
            IN  textOut = Join([i \in 1..(last - first + 1) |->
                                   cutLine(first + i - 1)], "\n")

----------------------------------------------------------------------------
(* helpFunc, usageFunc and renderHelp *)

\* the error the stream returns from a Write call that fails
ErrWrite == "write: broken pipe"

\* what the caller of a callback without a result learns
NoResult == "<no result>"

\* fmt.Fprintln, fmt.Fprintf: one Write call on w, which takes the data or
\* fails
Fprint(w, data) ==
    LET n == w.calls + 1
    IN  IF n \in w.fails
        THEN [w |-> [w EXCEPT !.calls = n], err |-> ErrWrite]
        ELSE [w |-> [w EXCEPT !.calls = n, !.data = Append(@, data)],
              err |-> NoError]

RECURSIVE fprintAll(_, _, _)
\* the statements fmt.Fprintln(w, ...) of renderHelp from the k-th on: the
\* result of each call is dropped and the next statement runs
fprintAll(w, chunks, k) ==
    IF k > Len(chunks) THEN w
    ELSE fprintAll(Fprint(w, chunks[k]).w, chunks, k + 1)

\* renderHelp, which has no result, on a command without a visible
\* subcommand, an example or a visible flag: it writes the description and
\* the USAGE section, and the COMMANDS, EXAMPLES, FLAGS and GLOBAL FLAGS
\* sections write nothing
renderHelp(w, cmd, long, short, width) ==
    LET desc == IF long # "" THEN long ELSE short
        description == IF desc # ""
                       THEN <<wrapText(dedent(desc), width) \o "\n", "\n">>
                       ELSE <<>>
        usage == <<Render("Header", "USAGE") \o "\n",
                   "  " \o formatUsage(cmd) \o "\n">>
    IN  fprintAll(w, description \o usage, 1)

\* the callback helpFunc returns: func(*cobra.Command, []string)
helpFunc ==
    /\ render.op = ""
    /\ stream' = renderHelp(stream, usageCmd, render.long, render.short,
                            helpWidth)
    /\ render' = [render EXCEPT !.op = "help", !.err = NoResult]
    /\ UNCHANGED <<tokVars, enumVars, cliVars, styleVars, groupVars,
                   usageVars, textVars, hookVars, called>>

\* the callback usageFunc returns: renderHelp, then return nil
usageFunc ==
    /\ render.op = ""
    /\ stream' = renderHelp(stream, usageCmd, render.long, render.short,
                            helpWidth)
    /\ render' = [render EXCEPT !.op = "usage", !.err = NoError]
    /\ UNCHANGED <<tokVars, enumVars, cliVars, styleVars, groupVars,
                   usageVars, textVars, hookVars, called>>

\* the descriptions of the commands rendered, and the Write calls of the
\* stream that may fail
LongTexts == {"", "\n    Long text.\n      More.\n"}

ShortTexts == {"", "Short."}

WriteCalls == 1..4

RenderInit ==
    /\ \E use \in UseStrings :
       \E flags \in SeqsUpTo({TRUE}, MaxUsageFlags) :
       \E disableFlags \in BOOLEAN :
       \E subs \in SeqsUpTo({TRUE}, MaxSubCommands) :
          usageCmd = command("", use, flags, disableFlags, subs)
    /\ usageLine = NotRendered
    /\ \E fails \in SUBSET WriteCalls :
          stream = [fails |-> fails, calls |-> 0, data |-> <<>>]
    /\ \E long \in LongTexts : \E short \in ShortTexts :
          render = [long |-> long, short |-> short, op |-> "", err |-> NoError]
    /\ HookIdle
    /\ CallIdle
    /\ TokIdle
    /\ EnumIdle
    /\ CliIdle
    /\ StyleIdle
    /\ GroupIdle
    /\ TextIdle

RenderNext == helpFunc \/ usageFunc

SpecRender == RenderInit /\ [][RenderNext]_vars

----------------------------------------------------------------------------
(* Properties of helpFunc and usageFunc *)

\* the Write calls made on the stream that failed
failedWrites == stream.fails \cap (1..stream.calls)

\* C22: when a Write call on the output stream fails while the help or the
\* usage text is rendered, the callback hands that error, unchanged, to its
\* caller; and no piece of text is written twice (every Write call either
\* failed or added its data to the stream once).
C22_WriteFailurePropagated ==
    render.op # "" =>
       /\ failedWrites # {} => render.err = ErrWrite
       /\ stream.calls = Len(stream.data) + Cardinality(failedWrites)

----------------------------------------------------------------------------
(* addFlagRequirementsValidation and the persistent pre-run hooks *)

\* a PersistentPreRunE the program set on command c, returning err
hookE(c, err) == [kind |-> "PersistentPreRunE", owner |-> c, returns |-> err]

\* a PersistentPreRun the program set on command c
hook(c) == [kind |-> "PersistentPreRun", owner |-> c]

\* the closure addFlagRequirementsValidation stores in PersistentPreRunE,
\* with the two hooks it captured
wrapper(existingPreRunE, existingPreRun) ==
    [kind |-> "wrapper", existingPreRunE |-> existingPreRunE,
     existingPreRun |-> existingPreRun]

\* the call of validateFlagRequirements, as it is logged
validation == [kind |-> "validateFlagRequirements"]

\* the closure as it would be if it ran both captured hooks
wrapperCallRunningBoth(w, changed) ==
    LET err == validateFlagRequirements(changed)
        both == (IF w.existingPreRunE # NilFunc
                 THEN <<w.existingPreRunE>> ELSE <<>>)
                \o (IF w.existingPreRun # NilFunc
                    THEN <<w.existingPreRun>> ELSE <<>>)
    IN  IF err # NoError THEN [log |-> <<validation>>, ret |-> err]
        ELSE [log |-> <<validation>> \o both,
              ret |-> IF w.existingPreRunE # NilFunc
                      THEN w.existingPreRunE.returns ELSE NoError]

\* the closure: validation, then existingPreRunE, or else existingPreRun
wrapperCall(w, changed) ==
    LET err == validateFlagRequirements(changed)
    IN  IF err # NoError THEN [log |-> <<validation>>, ret |-> err]
        ELSE IF w.existingPreRunE # NilFunc
        THEN [log |-> <<validation, w.existingPreRunE>>,
              ret |-> w.existingPreRunE.returns]
        ELSE IF w.existingPreRun # NilFunc
        THEN [log |-> <<validation, w.existingPreRun>>, ret |-> NoError]
        ELSE [log |-> <<validation>>, ret |-> NoError]

\* a call of the func h: the calls it makes, in order, and what it returns
callHook(h, changed) ==
    IF h.kind = "wrapper" THEN wrapperCall(h, changed)
    ELSE IF h.kind = "PersistentPreRunE"
    THEN [log |-> <<h>>, ret |-> h.returns]
    ELSE [log |-> <<h>>, ret |-> NoError]

\* addFlagRequirementsValidation(root): the command and, by the recursion
\* over cmd.Commands(), its subcommand
addFlagRequirementsValidation ==
    /\ pc = "setup"
    /\ \A c \in Commands : preRunE[c].kind # "wrapper"
    /\ preRunE' = [c \in Commands |-> wrapper(preRunE[c], preRun[c])]
    /\ preRun' = [c \in Commands |-> NilFunc]
    /\ UNCHANGED <<hookLog, hookRet>>
    /\ UNCHANGED <<tokVars, enumVars, cliVars, styleVars, groupVars,
                   usageVars, textVars, renderVars, called>>

\* cobra Command.Parent
Parent(c) == IF c = "sub" THEN <<"root">> ELSE <<>>

RECURSIVE persistentPreRunFrom(_)
\* cobra Command.execute: for p := c; p != nil; p = p.Parent(), the first
\* PersistentPreRunE or else PersistentPreRun found is the one that runs
persistentPreRunFrom(p) ==
    IF preRunE[p] # NilFunc THEN preRunE[p]
    ELSE IF preRun[p] # NilFunc THEN preRun[p]
    ELSE IF Parent(p) = <<>> THEN NilFunc
    ELSE persistentPreRunFrom(Parent(p)[1])

\* the command c is run, as it is logged
execution(c) == [kind |-> "execute", owner |-> c]

\* cobra executing the command c: the flags are parsed, the persistent
\* pre-run hook runs, and Run follows when the hook returned no error
executeCommand(c) ==
    LET start == [value |-> flagValue, vchanged |-> valueChanged,
                  changed |-> flagChanged, err |-> NoError, ran |-> FALSE]
        parsed == parseFlagsFrom(start, 1)
        h == persistentPreRunFrom(c)
        out == IF parsed.err # NoError THEN [log |-> <<>>, ret |-> parsed.err]
               ELSE IF h = NilFunc THEN [log |-> <<>>, ret |-> NoError]
               ELSE callHook(h, parsed.changed)
    IN  /\ pc = "setup"
        /\ pc' = "done"
        /\ flagValue' = parsed.value
        /\ valueChanged' = parsed.vchanged
        /\ flagChanged' = parsed.changed
        /\ hookLog' = <<execution(c)>> \o out.log
        /\ hookRet' = out.ret
        /\ execErr' = out.ret
        /\ ran' = (out.ret = NoError)
        /\ seen' = IF out.ret = NoError THEN parsed.value ELSE seen
        /\ UNCHANGED <<envAnnotation, requiresAnnotation, environ, args,
                       preRunE, preRun>>
        /\ UNCHANGED <<tokVars, enumVars, styleVars, groupVars, usageVars,
                       textVars, renderVars, called>>

\* the errors a PersistentPreRunE of the program returns
HookErrors == {NoError, "hook failed"}

\* a tree of two commands, each built with or without the two hooks
HooksInit ==
    /\ \E e \in [Commands -> HookErrors \cup {"none"}] :
          preRunE = [c \in Commands |->
                        IF e[c] = "none" THEN NilFunc ELSE hookE(c, e[c])]
    /\ \E set \in SUBSET Commands :
          preRun = [c \in Commands |-> IF c \in set THEN hook(c) ELSE NilFunc]
    /\ hookLog = <<>>
    /\ hookRet = NotRun
    /\ RenderIdle
    /\ CallIdle
    /\ CliIdle
    /\ TokIdle
    /\ EnumIdle
    /\ StyleIdle
    /\ GroupIdle
    /\ UsageIdle
    /\ TextIdle

HooksNext ==
    \/ /\ requiresCount(Len(FlagNames)) + 1 <= MaxRequires
       /\ MarkFlagRequires("key", <<"check">>)
       /\ UNCHANGED <<tokVars, enumVars, helpVars>>
    \/ \E a \in ArgSets : SetArgs(a) /\ UNCHANGED <<tokVars, enumVars, helpVars>>
    \/ addFlagRequirementsValidation
    \/ \E c \in Commands : executeCommand(c)

SpecHooks == HooksInit /\ [][HooksNext]_vars

----------------------------------------------------------------------------
(* Properties of the persistent pre-run hooks *)

\* the command that was run, and the calls made while it ran
executedCommand == hookLog[1].owner

hookCalls == Tail(hookLog)

\* addFlagRequirementsValidation has been applied to the tree
wrapped == \A c \in Commands : preRunE[c].kind = "wrapper"

\* C23: the PersistentPreRunE that addFlagRequirementsValidation installs on
\* a command keeps the hooks the command had; when it runs it validates the
\* flag requirements first, and then: if the validation fails it returns
\* that error and calls no hook; otherwise it calls the PersistentPreRunE
\* the command had, once, and returns its result; or, the command having
\* had none, it calls the PersistentPreRun the command had, once.
C23_ValidationThenPreviousHook ==
    [][/\ (~wrapped /\ wrapped')
          => \A c \in Commands :
                /\ preRunE'[c].existingPreRunE = preRunE[c]
                /\ preRunE'[c].existingPreRun = preRun[c]
                /\ preRun'[c] = NilFunc
       /\ (pc = "setup" /\ pc' = "done" /\ wrapped)
          => LET w == preRunE[executedCommand']
                 calls == hookCalls'
             IN  /\ calls # <<>>
                 /\ calls[1] = validation
                 /\ IF unsatisfied # {}
                    THEN /\ calls = <<validation>>
                         /\ HasPrefix(hookRet', "flag --")
                    ELSE IF w.existingPreRunE # NilFunc
                    THEN /\ calls = <<validation, w.existingPreRunE>>
                         /\ hookRet' = w.existingPreRunE.returns
                    ELSE IF w.existingPreRun # NilFunc
                    THEN /\ calls = <<validation, w.existingPreRun>>
                         /\ hookRet' = NoError
                    ELSE /\ calls = <<validation>>
                         /\ hookRet' = NoError]_vars

\* the root command, which had both hooks, was run after the wrapping with
\* its requirements met: its PersistentPreRunE was called and its result
\* returned, and its PersistentPreRun was not called
C23_Witness ==
    /\ pc = "done"
    /\ preRunE["root"] = wrapper(hookE("root", "hook failed"), hook("root"))
    /\ requiresAnnotation["key"] # <<>>
    /\ args["key"] # NotGiven
    /\ hookLog = <<execution("root"), validation, hookE("root", "hook failed")>>
    /\ hookRet = "hook failed"

\* the hook cobra runs for the subcommand of a tree in which only the root
\* has a persistent pre-run hook, when nothing has wrapped the hooks
inheritedHook ==
    IF preRunE["root"].existingPreRunE # NilFunc
    THEN preRunE["root"].existingPreRunE
    ELSE preRunE["root"].existingPreRun

\* C28: in a tree in which only the root command had a persistent pre-run
\* hook, running the subcommand with its requirements met after
\* addFlagRequirementsValidation still calls the root's hook, once, as
\* running it without the wrapping does.
C28_InheritedHookStillRuns ==
    (/\ pc = "done"
     /\ wrapped
     /\ executedCommand = "sub"
     /\ preRunE["sub"] = wrapper(NilFunc, NilFunc)
     /\ preRunE["root"] # wrapper(NilFunc, NilFunc)
     /\ unsatisfied = {})
       => Len(SelectSeq(hookCalls, LAMBDA call : call = inheritedHook)) = 1

----------------------------------------------------------------------------
(* Properties of WithHelp and of the maps of the enumerated flag value *)

\* the last call was WithHelp with one help string for each allowed name
helpedEach ==
    /\ ret.op = "WithHelp"
    /\ Len(allowed) >= 1
    /\ Len(ret.arg) = Len(allowed)

\* C24 as stated: after WithHelp(h1..hn) on an enum with the allowed display
\* names a1..an, HelpEntries() has n entries, entry i is (ai, hi), and
\* HasHelp() is true.
C24_EntryPerHelpString ==
    helpedEach =>
       /\ Len(HelpEntries) = Len(allowed)
       /\ \A i \in 1..Len(allowed) :
             HelpEntries[i] = [Name |-> allowed[i], Help |-> ret.arg[i]]
       /\ HasHelp

\* the help strings given for the display name n that are not empty, by
\* their positions
helpedAt(n) == {j \in 1..Len(allowed) : allowed[j] = n /\ ret.arg[j] # ""}

\* C24: after WithHelp(h1..hn) on an enum with the allowed display names
\* a1..an, HelpEntries() has n entries in declaration order and entry i is
\* named ai; its help is hi when the display names are pairwise distinct,
\* and in general the last non-empty help string given for the name ai, or
\* empty when there is none; HasHelp() is true exactly when some hi is not
\* empty.
C24_EntryPerAllowedName ==
    helpedEach =>
       /\ Len(HelpEntries) = Len(allowed)
       /\ \A i \in 1..Len(allowed) :
             /\ HelpEntries[i].Name = allowed[i]
             /\ Cardinality(allowedNames) = Len(allowed)
                   => HelpEntries[i].Help = ret.arg[i]
             /\ HelpEntries[i].Help =
                   IF helpedAt(allowed[i]) = {} THEN ""
                   ELSE ret.arg[CHOOSE j \in helpedAt(allowed[i]) :
                                   \A k \in helpedAt(allowed[i]) : j >= k]
       /\ HasHelp <=> \E i \in 1..Len(allowed) : ret.arg[i] # ""

\* WithHelp gave a help string to each of two distinct names
C24_Witness ==
    /\ helpedEach
    /\ HelpEntries = <<[Name |-> "json", Help |-> "first"],
                       [Name |-> "yaml", Help |-> "second"]>>
    /\ HasHelp

\* names and values are inverse maps, over the allowed values and the
\* allowed display names
inverseMaps ==
    /\ DOMAIN values = allowedNames
    /\ \A v \in DOMAIN names :
          names[v] \in DOMAIN values /\ values[names[v]] = v
    /\ \A n \in DOMAIN values :
          values[n] \in DOMAIN names /\ names[values[n]] = n

\* C26: whatever WithHelp and Set calls follow Enum(def, allowed...), the
\* maps names and values stay inverse to each other, and a Set call changes
\* neither of them nor the order of the allowed display names.
C26_NamesAndValuesInverse ==
    /\ []inverseMaps
    /\ [][ret'.op = "Set" => /\ names' = names
                             /\ values' = values
                             /\ allowed' = allowed]_vars

\* a Set has changed the value of an integer enum of two or more values
\* that has help
C26_Witness ==
    /\ baseType = "int"
    /\ Cardinality(DOMAIN names) >= 2
    /\ HasHelp
    /\ ret.op = "Set"
    /\ ret.err = NoError
    /\ String = "10"
    /\ inverseMaps

----------------------------------------------------------------------------
(* Calls on the annotations of a flag that may be nil *)

\* the flags given to the calls: nil, and two flags of the command
CallFlags == {NilFlag, "key", "port"}

annotationCall(fn, flag, r) == called' = [fn |-> fn, flag |-> flag, ret |-> r]

\* everything but the flags of the command and the call made
callFrame ==
    UNCHANGED <<tokVars, enumVars, styleVars, groupVars, usageVars, textVars,
                renderVars, hookVars>>

AnnotationsNext ==
    \/ \E flag \in CallFlags : \E envVar \in {"TEST_KEY", ""} :
          /\ BindEnv(flag, envVar)
          /\ annotationCall("BindEnv", flag, "")
          /\ callFrame
    \/ \E flag \in CallFlags :
       \E flagNames \in SeqsUpTo({"check", "missing"}, MaxMark) :
          /\ requiresCount(Len(FlagNames)) + Len(flagNames) <= MaxRequires
          /\ MarkFlagRequires(flag, flagNames)
          /\ annotationCall("MarkFlagRequires", flag, "")
          /\ callFrame
    \/ \E flag \in CallFlags :
          /\ pc = "setup"
          /\ annotationCall("GetFlagRequires", flag, GetFlagRequires(flag))
          /\ UNCHANGED cliVars
          /\ callFrame
    \/ \E flag \in CallFlags :
          /\ pc = "setup"
          /\ annotationCall("GetEnvVar", flag, GetEnvVar(flag))
          /\ UNCHANGED cliVars
          /\ callFrame

SpecAnnotations == CliInit /\ [][AnnotationsNext]_vars

\* C25: a call given a nil flag does nothing: MarkFlagRequires(nil, ...) and
\* BindEnv(nil, v) return leaving the annotations of every flag as they
\* were, GetFlagRequires(nil) returns nil and GetEnvVar(nil) returns "".
C25_NilFlagIsNoOp ==
    [][called'.flag = NilFlag =>
          /\ envAnnotation' = envAnnotation
          /\ requiresAnnotation' = requiresAnnotation
          /\ called'.fn = "GetFlagRequires" => called'.ret = <<>>
          /\ called'.fn = "GetEnvVar" => called'.ret = ""]_vars

\* BindEnv was given a nil flag after a flag had been bound and marked
C25_Witness ==
    /\ called = [fn |-> "BindEnv", flag |-> NilFlag, ret |-> ""]
    /\ envAnnotation["key"] = <<"TEST_KEY">>
    /\ requiresAnnotation["key"] = <<"check">>
    /\ GetEnvVar(NilFlag) = ""
    /\ GetFlagRequires(NilFlag) = <<>>

----------------------------------------------------------------------------
(* Properties of Execute: the environment and the command line together *)

\* C27: when every bound flag is given on the command line, the values of
\* the bound variables have no influence on Execute: whatever they hold
\* (nothing, a value the flag accepts or one it rejects) Execute returns
\* what it returns when they are unset, and Run sees what it sees then,
\* each bound flag reading its command-line value.
C27_EnvironmentWithoutInfluence ==
    (/\ pc = "done"
     /\ boundFlags # {}
     /\ \A f \in boundFlags : given(f))
       => /\ execErr = NoError
          /\ ran
          /\ \A f \in FlagSet :
                seen[f] = IF given(f) THEN fresh(f, args[f]) ELSE FlagDefault[f]

\* a command with bound flags and flag requirements: the flags bound and
\* marked, and the names the requirements name
BoundFlags == {"check", "key"}

EnvRequiresNext ==
    \/ \E flag \in BoundFlags :
          BindEnv(flag, "TEST_KEY") /\ UNCHANGED <<tokVars, enumVars, helpVars>>
    \/ \E v \in {"1", "from-env"} :
          Setenv("TEST_KEY", v) /\ UNCHANGED <<tokVars, enumVars, helpVars>>
    \/ Unsetenv("TEST_KEY") /\ UNCHANGED <<tokVars, enumVars, helpVars>>
    \/ \E flag \in BoundFlags \cup {"port"} :
       \E flagNames \in SeqsUpTo(BoundFlags, MaxMark) :
          /\ requiresCount(Len(FlagNames)) + Len(flagNames) <= MaxRequires
          /\ MarkFlagRequires(flag, flagNames)
          /\ UNCHANGED <<tokVars, enumVars, helpVars>>
    \/ \E a \in ArgSets : SetArgs(a) /\ UNCHANGED <<tokVars, enumVars, helpVars>>
    \/ Execute /\ UNCHANGED <<tokVars, enumVars, helpVars>>

SpecEnvRequires == CliInit /\ [][EnvRequiresNext]_vars

\* the flags whose value came from the environment only: bound, not given
\* on the command line, the variable holding a value the flag accepts
envOnly ==
    {f \in boundFlags :
        /\ ~given(f)
        /\ Getenv(environ, GetEnvVar(f)) # ""
        /\ ~rejects(f, Getenv(environ, GetEnvVar(f)))}

----------------------------------------------------------------------------
(* tokenizeExample and styleExampleLine on lines of any bytes *)

\* the lines: every string of a few bytes, one of them no valid UTF-8, and
\* the example lines given to styleExampleLine
ByteAlphabet == {"a", "=", " ", "'", "\\", "|", InvalidByte}

LosslessInit ==
    /\ line \in StringsUpTo(ByteAlphabet, MaxLen)
                   \cup StylePhraseLines(MaxStylePhrases)
    /\ tpos = 0
    /\ tokens = <<>>
    /\ rootCmd = "cmd"
    /\ subcommands = {"sub"}
    /\ spos = 0
    /\ expectCommand = TRUE
    /\ result = <<>>
    /\ EnumIdle
    /\ CliIdle
    /\ GroupIdle
    /\ UsageIdle
    /\ TextIdle
    /\ MoreIdle

SpecLossless == LosslessInit /\ [][StyleNext]_vars

RECURSIVE concat(_, _)
\* the strings f[1], ..., f[n] one after another
concat(f, n) == IF n = 0 THEN "" ELSE concat(f, n - 1) \o f[n]

\* the token values, and the texts styleExampleLine wrote, in order
tokenText == concat([k \in 1..Len(tokens) |-> tokens[k].value], Len(tokens))

styledText == concat([k \in 1..Len(result) |-> result[k].text], Len(result))

\* styleExampleLine has returned
styled == tokenized /\ spos = Len(tokens)

\* every step consumes a part of the line or a token, so that both loops end
consuming ==
    \/ tpos' > tpos /\ tpos' <= Len(line) /\ spos' = spos
    \/ spos' > spos /\ spos' <= Len(tokens) /\ tpos' = tpos

\* C30 as stated: for every line tokenizeExample ends and its tokens, none
\* empty, read the line when put one after another (no token for the empty
\* line), and what styleExampleLine writes, its style marks removed, is
\* the line.
C30_LosslessOnEveryLine ==
    /\ [](/\ \A k \in 1..Len(tokens) : tokens[k].value # ""
          /\ tokenized => tokenText = line
          /\ line = "" => tokens = <<>>
          /\ styled => styledText = line)
    /\ [][consuming]_vars

\* the text of s decoded and encoded again: s itself, but for U+FFFD in the
\* place of each byte that is no valid UTF-8
isDecoded(str, s) ==
    /\ Len(str) = Len(s)
    /\ \A k \in 1..Len(s) :
          SubSeq(str, k, k) = IF SubSeq(s, k, k) = InvalidByte
                              THEN ReplacementChar
                              ELSE SubSeq(s, k, k)

\* C30: for every line tokenizeExample ends and its tokens, none empty,
\* read the line as decoded into runes when put one after another: the
\* line itself when it is valid UTF-8, else the line with U+FFFD for each
\* invalid byte (no token for the empty line); what styleExampleLine
\* writes, its style marks removed, is that same text.
C30_LosslessOnDecodedLine ==
    /\ [](/\ \A k \in 1..Len(tokens) : tokens[k].value # ""
          /\ tokenized => isDecoded(tokenText, line)
          /\ line = "" => tokens = <<>>
          /\ styled => isDecoded(styledText, line)
          /\ (styled /\ InvalidByte \notin {SubSeq(line, k, k) : k \in 1..Len(line)})
                => styledText = line)
    /\ [][consuming]_vars

\* an environment assignment and a word with an invalid byte were styled
C30_Witness ==
    /\ styled
    /\ line = "a=|#"
    /\ Len(tokens) = 3
    /\ Len(result) = 4
    /\ styledText = "a=|?"

====
